---- MODULE Spec2Model ----
(***************************************************************************)
(* Expense-Tracker: the file-backed Record Store (StorageService), the     *)
(* Transaction domain model, the Transaction Service and the               *)
(* ExchangeRateService, as state machines.                                 *)
(***************************************************************************)
EXTENDS Integers, Sequences, FiniteSets, TLC

VARIABLES
    disk,     \* the data directory: live file, temp file, transient backup, backup sets
    now,      \* the wall clock in milliseconds (new Date())
    proc,     \* per process: position inside readData / writeData and its locals
    hist,     \* history of the completed calls (observation only)
    tz,       \* the process's UTC offset in hours (environment of Date)
    out,      \* result of the last service call (observation only)
    rateSvc   \* the ExchangeRateService singleton: its cache slot, its calls in flight

vars == <<disk, now, proc, hist, tz, out, rateSvc>>

----------------------------------------------------------------------------
(* Bounds of the model *)

MaxTime == 4
MaxRecords == 2

(* Program constants *)

\* 10 * 1024 * 1024 bytes, counted here in MiB
maxSize == 10

Procs == {1, 2}

----------------------------------------------------------------------------
(* File contents.  A content is what JSON.parse would make of the bytes:   *)
(* kind "json" with the type of the top-level value and of its three       *)
(* fields, or bytes that do not parse ("garbage"), white space ("blank"),  *)
(* zero bytes ("empty"); "nofile" marks a path that does not exist.        *)

Field(t, v) == [t |-> t, v |-> v]
UndefSeq == Field("undef", << >>)
UndefStr == Field("undef", "")

Content(kind, size, top, e, i, s) ==
    [kind |-> kind, size |-> size, top |-> top, expenses |-> e, income |-> i, settings |-> s]

NoFile == Content("nofile", 0, "none", UndefSeq, UndefSeq, UndefStr)
BlankFile == Content("blank", 1, "none", UndefSeq, UndefSeq, UndefStr)
Garbage == Content("garbage", 1, "none", UndefSeq, UndefSeq, UndefStr)
BigGarbage == Content("garbage", maxSize + 1, "none", UndefSeq, UndefSeq, UndefStr)

\* a write that stopped half way leaves a prefix of the text: it does not parse
Torn(c) == [c EXCEPT !.kind = "garbage"]

Exists(c) == c.kind # "nofile"

----------------------------------------------------------------------------
(* Documents: the value readData returns and writeData takes.              *)

Doc(e, i, s) == [expenses |-> e, income |-> i, settings |-> s]

\* { expenses: [], income: [], settings: {} }
EmptyDoc == Doc(<< >>, << >>, "")

\* Buffer.byteLength(JSON.stringify(data)) in MiB: a settings map can be of
\* any size, the value "huge" stands for one beyond the cap
ByteLength(d) == IF d.settings = "huge" THEN maxSize + 1 ELSE 1

\* JSON.stringify(data, null, 2) of a document
Stringify(d) ==
    Content("json", ByteLength(d), "obj",
            Field("arr", d.expenses), Field("arr", d.income), Field("obj", d.settings))

\* { expenses: [], income: [] } as ensureDataFileExists writes it
InitialFile ==
    Content("json", 1, "obj", Field("arr", << >>), Field("arr", << >>), UndefStr)

----------------------------------------------------------------------------
(* The data directory *)

dataFilePath == "live"

\* a faulty variant: the text is written straight into the data file
tempPath_live == "live"

\* this.dataFilePath + '.tmp'
tempPath == "tmp"
backupPath == "bak"

\* a timestamped file: its name's timestamp, its mtime and its content
Stamped(ts, mtime, c) == [ts |-> ts, mtime |-> mtime, c |-> c]

Disk(live, tmp, bak, backups, corrupted) ==
    [live |-> live, tmp |-> tmp, bak |-> bak, backups |-> backups, corrupted |-> corrupted]

\* an empty directory
NoDisk == Disk(NoFile, NoFile, NoFile, {}, {})

\* fs.writeFileSync(path, text) once all bytes are down
WriteFileSync(d, path, c) == [d EXCEPT ![path] = c]

\* a faulty variant: the file is moved, not copied
CopyFileSync_move(d, from, to) == [d EXCEPT ![to] = d[from], ![from] = NoFile]

\* fs.copyFileSync(from, to)
CopyFileSync(d, from, to) == [d EXCEPT ![to] = d[from]]

\* fs.renameSync(from, to): the target is replaced in one step
RenameSync(d, from, to) == [d EXCEPT ![to] = d[from], ![from] = NoFile]

\* fs.unlinkSync(path)
UnlinkSync(d, path) == [d EXCEPT ![path] = NoFile]

----------------------------------------------------------------------------
(* StorageService.readData, as a function of the bytes of the live file *)

CoerceArray(f) == IF f.t = "arr" THEN f.v ELSE << >>
CoerceSettings(f) == IF f.t = "obj" THEN f.v ELSE ""

\* a faulty variant: a SyntaxError is rethrown like any other error
ReadOutcome_rethrow(c) ==
    IF ~Exists(c) \/ c.size > maxSize \/ c.kind = "garbage" \/ c.top = "null"
    THEN [r |-> "threw", doc |-> EmptyDoc]
    ELSE [r |-> "ok",
          doc |-> Doc(CoerceArray(c.expenses), CoerceArray(c.income),
                      CoerceSettings(c.settings))]

\* r = "ok": returns doc; "threw": throws Error('Failed to read data: ...');
\* "recover": JSON.parse threw a SyntaxError (backup and reset follow)
ReadOutcome(c) ==
    IF ~Exists(c) THEN [r |-> "threw", doc |-> EmptyDoc]
    ELSE IF c.size > maxSize THEN [r |-> "threw", doc |-> EmptyDoc]
    ELSE IF c.kind \in {"empty", "blank"} THEN [r |-> "ok", doc |-> EmptyDoc]
    ELSE IF c.kind = "garbage" THEN [r |-> "recover", doc |-> EmptyDoc]
    ELSE IF c.top = "null" THEN [r |-> "threw", doc |-> EmptyDoc]
    ELSE [r |-> "ok",
          doc |-> Doc(CoerceArray(c.expenses), CoerceArray(c.income),
                      CoerceSettings(c.settings))]

----------------------------------------------------------------------------
(* StorageService.rotateBackups *)

\* sort newest first by mtime and keep the first two
NewestTwo(B) == {b \in B : Cardinality({x \in B : x.mtime > b.mtime}) < 2}

\* backupFiles.length >= 3 ? the files left after slice(2) is deleted
AfterDelete(B) == IF Cardinality(B) >= 3 THEN NewestTwo(B) ELSE B

\* copyFileSync(live, `${path}.backup.${timestamp}.json`): a file of that name is replaced
AddStamped(B, t, c) == {b \in B : b.ts # t} \cup {Stamped(t, t, c)}

RotateOutcomes == {"ok", "unlinkFail", "copyFail", "listFail"}

\* every failure inside is caught and logged: rotation never throws
RotateBackups(d, t, outcome) ==
    LET kept == IF outcome = "unlinkFail" THEN d.backups ELSE AfterDelete(d.backups)
    IN  IF outcome = "listFail" THEN d
        ELSE IF outcome = "copyFail" \/ ~Exists(d[dataFilePath])
             THEN [d EXCEPT !.backups = kept]
             ELSE [d EXCEPT !.backups = AddStamped(kept, t, d[dataFilePath])]

----------------------------------------------------------------------------
(* ExchangeRateService: the values of its cache slot and the service object *)

\* a rate table maps a currency code to the units of it per US dollar, held
\* here in hundredths; the table of no currency
NoTable == [c \in {} |-> 0]

\* a JS value that is a rate table (an object), null or undefined
Rates(t, v) == [t |-> t, v |-> v]
Table(v) == Rates("object", v)
NullRates == Rates("null", NoTable)
UndefRates == Rates("undefined", NoTable)

\* Date.now() as a timestamp, and null in its place
Stamp(n) == [t |-> "number", v |-> n]
NullStamp == [t |-> "null", v |-> 0]

\* this.cache = { rates, baseCurrency, timestamp }; "null" stands for a null
\* baseCurrency
Cache(rates, baseCurrency, timestamp) ==
    [rates |-> rates, baseCurrency |-> baseCurrency, timestamp |-> timestamp]

\* the slot as the constructor and clearCache leave it
EmptyCache == Cache(NullRates, "null", NullStamp)

\* the async calls that can be in flight at once, each awaiting its fetch
Tasks == {1, 2}

\* an async call: its operation and its arguments
Task(op, amount, from, to) == [op |-> op, amount |-> amount, from |-> from, to |-> to]
NoTask == Task("none", 0, "", "")

\* new ExchangeRateService(); calls, last and fetches count the calls made,
\* name the last one and count the requests sent (observation only)
NewService ==
    [cache |-> EmptyCache, task |-> [k \in Tasks |-> NoTask], calls |-> 0, last |-> "none",
     fetches |-> 0]

----------------------------------------------------------------------------
(* Processes.  Each front end is a process with its own StorageService;    *)
(* every file system call is one step, so that calls of two processes      *)
(* interleave and a crash can fall between any two of them.                *)

NoBackup == Stamped(0 - 1, 0 - 1, NoFile)
\* the history of writeData calls: kept (on) where the rotation is observed
\* calls: the Transaction Service calls made; born: the id and the createdAt
\* of every record at the moment it was added
NoHist == [on |-> FALSE, nOk |-> 0, made |-> << >>, calls |-> 0, born |-> {}]
NewHist == [on |-> TRUE, nOk |-> 0, made |-> << >>, calls |-> 0, born |-> {}]

\* pc: position; mode: who called writeData ("user", "recover" from
\* backupCorruptedFile, "init" from ensureDataFileExists); data: the text to
\* write; start: the directory when the call began; seen: the bytes readData
\* read; op, res, ret: the finished call, how it ended and what it returned;
\* err: the step that failed; made: the timestamped backup this call made;
\* clean: no file system call of this writeData failed; crashWin: "died" when
\* the process last died between the temp write and the rename, "read" once
\* it has read the data file after that; prev: the data file as it was when
\* the call it died in began
NewProc(d) ==
    [pc |-> "idle", mode |-> "none", data |-> NoFile, start |-> d, seen |-> NoFile,
     op |-> "none", res |-> "none", ret |-> EmptyDoc, err |-> "none",
     made |-> NoBackup, clean |-> TRUE, crashWin |-> "no", prev |-> NoFile]

Set(p, q) == proc' = [proc EXCEPT ![p] = q]

\* the last three entries of a sequence
LastThree(s) == IF Len(s) <= 3 THEN s ELSE SubSeq(s, Len(s) - 2, Len(s))

\* N >= 4 is all the rotation bound speaks of: the count stops there
CountCap == 4

\* the record of a finished writeData call
Finished(h, q, ok) ==
    IF ~h.on THEN h
    ELSE IF ok /\ q.clean /\ Exists(q.start[dataFilePath])
    THEN [h EXCEPT !.nOk = IF @ < CountCap THEN @ + 1 ELSE @,
                   !.made = LastThree(Append(@, q.made))]
    ELSE NewHist

\* writeData(data) entered: serialize, check the size (lines 150-160)
EnterWrite(q, d, c, mode) ==
    [q EXCEPT !.pc = IF c.size > maxSize THEN "wCatch" ELSE "wTmp",
              !.mode = mode, !.data = c, !.start = d,
              !.err = IF c.size > maxSize THEN "size" ELSE "none",
              !.op = "none", !.res = "none", !.ret = EmptyDoc,
              !.made = NoBackup, !.clean = TRUE,
              !.crashWin = IF mode = "init" THEN q.crashWin ELSE "no",
              !.prev = IF mode = "init" THEN q.prev ELSE NoFile]

\* writeData returns (ok) or throws to the code that called it
LeaveWrite(q, ok) ==
    IF q.mode = "recover"
    THEN \* backupCorruptedFile catches; readData returns the empty document
         [q EXCEPT !.pc = "idle", !.op = "read", !.res = "ok", !.ret = EmptyDoc]
    ELSE IF q.mode = "init"
    THEN \* the constructor: done, or 'Failed to initialize storage'
         [q EXCEPT !.pc = IF ok THEN "idle" ELSE "dead"]
    ELSE [q EXCEPT !.pc = "idle", !.op = "write", !.res = IF ok THEN "ok" ELSE "threw"]

----------------------------------------------------------------------------
(* StorageService.writeData, step by step *)

\* the documents a caller hands to writeData
UserDocs == {EmptyDoc, Doc(<< >>, << >>, "$"), Doc(<< >>, << >>, "huge")}

WriteBegin(p, data) ==
    /\ proc[p].pc = "idle"
    /\ Set(p, EnterWrite(proc[p], disk, Stringify(data), "user"))
    /\ UNCHANGED <<disk, now, hist, tz, rateSvc, out>>

\* fs.writeFileSync(tempPath, jsonData): the file is created or truncated and
\* the first bytes are written ...
WriteTmpStart(p) ==
    /\ proc[p].pc = "wTmp"
    /\ disk' = WriteFileSync(disk, tempPath, Torn(proc[p].data))
    /\ Set(p, [proc[p] EXCEPT !.pc = "wTmpMid"])
    /\ UNCHANGED <<now, hist, tz, rateSvc, out>>

\* ... and the rest of them: when another process has truncated or replaced
\* the temp file since, the file at that path holds bytes of both texts, and
\* when it is gone from that path the bytes do not come back there
WriteTmpEnd(p) ==
    /\ proc[p].pc = "wTmpMid"
    /\ disk' = IF disk[tempPath] = Torn(proc[p].data)
               THEN WriteFileSync(disk, tempPath, proc[p].data)
               ELSE IF Exists(disk[tempPath]) THEN WriteFileSync(disk, tempPath, Garbage)
               ELSE disk
    /\ Set(p, [proc[p] EXCEPT !.pc = "wRotate"])
    /\ UNCHANGED <<now, hist, tz, rateSvc, out>>

\* if (fs.existsSync(dataFilePath)) { this.rotateBackups(); ...
WriteRotate(p, outcome) ==
    /\ proc[p].pc = "wRotate"
    /\ IF Exists(disk[dataFilePath])
       THEN LET d == RotateBackups(disk, now, outcome)
            IN  /\ disk' = d
                /\ Set(p, [proc[p] EXCEPT
                       !.pc = "wCopy",
                       !.clean = (outcome = "ok"),
                       !.made = IF outcome = "ok"
                                THEN Stamped(now, now, disk[dataFilePath])
                                ELSE NoBackup])
       ELSE /\ outcome = "ok"
            /\ Set(p, [proc[p] EXCEPT !.pc = "wRename"])
            /\ UNCHANGED disk
    /\ UNCHANGED <<now, hist, tz, rateSvc, out>>

\* ... fs.copyFileSync(dataFilePath, backupPath) }
WriteCopy(p) ==
    /\ proc[p].pc = "wCopy"
    /\ Exists(disk[dataFilePath])
    /\ disk' = CopyFileSync(disk, dataFilePath, backupPath)
    /\ Set(p, [proc[p] EXCEPT !.pc = "wRename"])
    /\ UNCHANGED <<now, hist, tz, rateSvc, out>>

\* fs.renameSync(tempPath, dataFilePath)
WriteRename(p) ==
    /\ proc[p].pc = "wRename"
    /\ Exists(disk[tempPath])
    /\ disk' = RenameSync(disk, tempPath, dataFilePath)
    /\ Set(p, [proc[p] EXCEPT !.pc = "wUnlink"])
    /\ UNCHANGED <<now, hist, tz, rateSvc, out>>

\* if (fs.existsSync(backupPath)) fs.unlinkSync(backupPath); and return
WriteUnlink(p) ==
    /\ proc[p].pc = "wUnlink"
    /\ disk' = IF Exists(disk[backupPath]) THEN UnlinkSync(disk, backupPath) ELSE disk
    /\ Set(p, LeaveWrite(proc[p], TRUE))
    /\ hist' = Finished(hist, proc[p], TRUE)
    /\ UNCHANGED <<now, tz, rateSvc, out>>

\* the file system call the process is at throws (EACCES, ENOSPC, ENOENT ...)
FailSteps == {"wTmp", "wTmpMid", "wCopy", "wRename", "wUnlink"}

WriteFail(p) ==
    /\ proc[p].pc \in FailSteps
    /\ proc[p].pc = "wUnlink" => Exists(disk[backupPath])
    /\ Set(p, [proc[p] EXCEPT !.pc = "wCatch", !.err = proc[p].pc, !.clean = FALSE])
    /\ UNCHANGED <<disk, now, hist, tz, rateSvc, out>>

\* catch: remove the temp file if it exists, throw 'Failed to write data'
WriteCatch(p) ==
    /\ proc[p].pc = "wCatch"
    /\ disk' = IF Exists(disk[tempPath]) THEN UnlinkSync(disk, tempPath) ELSE disk
    /\ Set(p, LeaveWrite(proc[p], FALSE))
    /\ hist' = Finished(hist, proc[p], FALSE)
    /\ UNCHANGED <<now, tz, rateSvc, out>>

----------------------------------------------------------------------------
(* StorageService.readData and backupCorruptedFile *)

\* statSync, readFileSync, JSON.parse and the coercion of the fields
ReadData(p) ==
    /\ proc[p].pc = "idle"
    /\ LET c == disk[dataFilePath]
           o == ReadOutcome(c)
           q == [proc[p] EXCEPT
                    !.seen = c, !.op = "read", !.mode = "none", !.err = "none",
                    !.data = NoFile, !.made = NoBackup, !.clean = TRUE,
                    !.start = NoDisk,
                    !.prev = IF proc[p].crashWin = "died" THEN @ ELSE NoFile,
                    !.crashWin = IF @ = "died" THEN "read" ELSE "no"]
       IN  Set(p, IF o.r = "recover"
                  THEN [q EXCEPT !.pc = "cBackup", !.op = "none", !.res = "none"]
                  ELSE [q EXCEPT !.res = o.r, !.ret = o.doc])
    /\ UNCHANGED <<disk, now, hist, tz, rateSvc, out>>

\* backupCorruptedFile: copy the live file to `${path}.corrupted.${timestamp}.bak`,
\* then writeData of the empty document
RecoverCopy(p) ==
    /\ proc[p].pc = "cBackup"
    /\ disk' = IF Exists(disk[dataFilePath])
               THEN [disk EXCEPT !.corrupted = AddStamped(@, now, disk[dataFilePath])]
               ELSE disk
    /\ Set(p, EnterWrite(proc[p], disk, Stringify(EmptyDoc), "recover"))
    /\ UNCHANGED <<now, hist, tz, rateSvc, out>>

\* the copy throws: backupCorruptedFile logs it and does not reset the file
RecoverCopyFail(p) ==
    /\ proc[p].pc = "cBackup"
    /\ Exists(disk[dataFilePath])
    /\ Set(p, [proc[p] EXCEPT !.pc = "idle", !.op = "read", !.res = "ok",
                              !.ret = EmptyDoc, !.err = "cBackup", !.clean = FALSE])
    /\ UNCHANGED <<disk, now, hist, tz, rateSvc, out>>

----------------------------------------------------------------------------
(* The environment: process death and start, the clock, other programs *)

\* the process dies (crash, kill, power loss) inside a call
Crash(p) ==
    /\ proc[p].pc \notin {"idle", "dead"}
    /\ LET win == proc[p].mode = "user" /\ proc[p].pc \in {"wRotate", "wCopy", "wRename"}
       IN  Set(p, [proc[p] EXCEPT
               !.pc = "dead",
               !.crashWin = IF win THEN "died" ELSE "no",
               !.prev = IF win THEN proc[p].start[dataFilePath] ELSE NoFile])
    /\ hist' = IF hist.on THEN NewHist ELSE hist
    /\ UNCHANGED <<disk, now, tz, rateSvc, out>>

\* new StorageService(): ensureDataFileExists writes the initial document
\* when there is no data file
Start(p) ==
    /\ proc[p].pc = "dead"
    /\ Set(p, IF Exists(disk[dataFilePath])
              THEN [proc[p] EXCEPT !.pc = "idle", !.op = "none", !.res = "none"]
              ELSE EnterWrite(proc[p], disk, InitialFile, "init"))
    /\ UNCHANGED <<disk, now, hist, tz, rateSvc, out>>

\* a millisecond passes
Tick ==
    /\ now < MaxTime
    /\ now' = now + 1
    /\ UNCHANGED <<disk, proc, hist, tz, rateSvc, out>>

\* another program (an editor, a failing disk) changes the data file while
\* no call is running
Damage == {Garbage, BigGarbage, BlankFile}

Tamper(c) ==
    /\ \A p \in Procs : proc[p].pc \in {"idle", "dead"}
    /\ Exists(disk[dataFilePath])
    /\ disk[dataFilePath] # c
    /\ disk' = [disk EXCEPT ![dataFilePath] = c]
    /\ UNCHANGED <<now, proc, hist, tz, rateSvc, out>>

----------------------------------------------------------------------------
(* Specifications of the Record Store *)

NoOut == [op |-> "none"]

\* a fresh directory: no file yet, no process started
InitDir(h) ==
    /\ disk = NoDisk
    /\ now = 0
    /\ proc = [p \in Procs |-> [NewProc(NoDisk) EXCEPT !.pc = "dead"]]
    /\ hist = h
    /\ tz = 0
    /\ rateSvc = NewService
    /\ out = NoOut

InitStore == InitDir(NoHist)
InitRotate == InitDir(NewHist)

\* the steps of a writeData call in which every file system call succeeds
WriteStep(p) ==
    \/ WriteTmpStart(p)
    \/ WriteTmpEnd(p)
    \/ \E outcome \in RotateOutcomes : WriteRotate(p, outcome)
    \/ WriteCopy(p)
    \/ WriteRename(p)
    \/ WriteUnlink(p)

\* SpecFail: one process writes; any file system call of writeData may fail
\* and the process may die at any step
NextFail ==
    \/ \E data \in UserDocs : WriteBegin(1, data)
    \/ WriteStep(1)
    \/ WriteFail(1)
    \/ WriteCatch(1)
    \/ Crash(1)
    \/ Start(1)

SpecFail == InitStore /\ [][NextFail]_vars

\* SpecRotate: one process writes again and again while the clock runs
NextRotate ==
    \/ \E data \in UserDocs : WriteBegin(1, data)
    \/ WriteStep(1)
    \/ WriteCatch(1)
    \/ Start(1)
    \/ Tick

SpecRotate == InitRotate /\ [][NextRotate]_vars

\* SpecRecover: the data file is damaged from outside and one process reads
\* it; the calls of the recovery may fail
NextRecover ==
    \/ \E c \in Damage : Tamper(c)
    \/ ReadData(1)
    \/ RecoverCopy(1)
    \/ RecoverCopyFail(1)
    \/ WriteStep(1)
    \/ WriteFail(1)
    \/ WriteCatch(1)
    \/ Start(1)
    \/ Tick

SpecRecover == InitStore /\ [][NextRecover]_vars

\* SpecAtomic: the data file exists; process 1 writes it (and may fail or
\* die and start again), process 2 reads it at any moment
InitAtomic ==
    /\ \E d \in UserDocs :
          /\ ByteLength(d) <= maxSize
          /\ disk = Disk(Stringify(d), NoFile, NoFile, {}, {})
          /\ proc = [p \in Procs |-> NewProc(disk)]
    /\ now = 0
    /\ hist = NoHist
    /\ tz = 0
    /\ rateSvc = NewService
    /\ out = NoOut

NextAtomic ==
    \/ \E data \in UserDocs : WriteBegin(1, data)
    \/ WriteStep(1)
    \/ WriteFail(1)
    \/ WriteCatch(1)
    \/ Crash(1)
    \/ Start(1)
    \/ ReadData(1)
    \/ ReadData(2)

SpecAtomic == InitAtomic /\ [][NextAtomic]_vars

----------------------------------------------------------------------------
(* Properties of the Record Store *)

\* C1: when the process dies inside writeData after the temp file is written
\* and before the rename, the next readData returns exactly the document
\* that was live when that write began
C1_InterruptedWriteKeepsDocument ==
    \A p \in Procs :
        proc[p].pc = "idle" /\ proc[p].crashWin = "read" =>
            /\ proc[p].res = "ok"
            /\ proc[p].ret = ReadOutcome(proc[p].prev).doc

\* a read after such a death, the new text still lying in the temp file
C1_Witness ==
    /\ proc[1].pc = "idle" /\ proc[1].crashWin = "read"
    /\ Exists(disk[tempPath])
    /\ disk[tempPath].kind = "json"
    /\ disk[tempPath] # proc[1].prev

\* C2: while process 1 is inside writeData the live file is at every step the
\* whole previous or the whole new document, so a read of process 2 at any
\* interleaving point parses and never enters the corruption recovery
C2_ReaderSeesWholeDocument ==
    /\ proc[1].mode = "user" =>
          /\ disk[dataFilePath] \in {proc[1].start[dataFilePath], proc[1].data}
          /\ disk[dataFilePath].kind = "json"
    /\ proc[2].pc = "idle"
    /\ proc[2].op = "read" =>
          /\ proc[2].seen.kind = "json"
          /\ proc[2].res = "ok"
          /\ proc[2].ret = ReadOutcome(proc[2].seen).doc

\* process 2 has read the previous document while the temp file is half written
C2_Witness ==
    /\ proc[1].pc = "wTmpMid"
    /\ disk[tempPath].kind = "garbage"
    /\ proc[2].op = "read"
    /\ proc[2].seen = proc[1].start[dataFilePath]
    /\ proc[2].seen # proc[1].data

\* C3: a failure at the temp write, the transient backup copy, the rename or
\* the transient backup removal ends with the temp file removed, the live
\* file as it was before the call, and an error thrown
C3_FailureLeavesOriginal ==
    proc[1].pc = "idle" /\ proc[1].op = "write" /\ proc[1].err \in FailSteps =>
        /\ proc[1].res = "threw"
        /\ ~Exists(disk[tempPath])
        /\ disk[dataFilePath] = proc[1].start[dataFilePath]

C5_ThreeMostRecentBackups ==
    hist.nOk >= CountCap /\ proc[1].pc = "idle" =>
        /\ Cardinality(disk.backups) <= 3
        /\ disk.backups = {hist.made[k] : k \in 1..Len(hist.made)}

\* C6: a writeData whose text exceeds 10 MiB throws and leaves every file,
\* a temp file that already existed included, as it was
C6_OversizeTouchesNothing ==
    proc[1].pc = "idle" /\ proc[1].op = "write" /\ proc[1].err = "size" =>
        /\ proc[1].res = "threw"
        /\ disk = proc[1].start

----------------------------------------------------------------------------
(* Values of the domain model.  A JS value that may be of several types is *)
(* a pair of its type and its value.                                       *)

Val(t, v) == [t |-> t, v |-> v]

\* amounts: a number, NaN, Infinity, a string, undefined
Num(n) == Val("num", n)
NaN == Val("nan", 0)
Infinity == Val("inf", 0)
NotANumber == Val("str", 0)
UndefAmount == Val("undef", 0)

\* dates: a 'YYYY-MM-DD' string of calendar day d; a Date object, v hours
\* after the epoch; a string that is no date; an Invalid Date; ''; undefined
Ymd(d) == Val("ymd", d)
DateAt(h) == Val("date", h)
BadDateString == Val("bad", 0)
InvalidDate == Val("baddate", 0)
EmptyDate == Val("empty", 0)
UndefDate == Val("undef", 0)

\* an absent string property
Undefined == "undefined"

EXPENSE_CATEGORIES ==
    {"Food", "Transport", "Utilities", "Entertainment", "Healthcare", "Shopping",
     "Education", "Other"}

INCOME_SOURCES == {"Salary", "Freelance", "Investment", "Gift", "Business", "Other"}

\* the cap on an amount
MAX_AMOUNT == 999999999

\* the longest description
MaxDescription == 500

\* description.length of the descriptions used here
DescLength(s) == IF s = "" THEN 0 ELSE IF s = "long" THEN MaxDescription + 1 ELSE 4

Falsy(s) == s \in {"", Undefined}

----------------------------------------------------------------------------
(* Dates *)

\* new Date(x): a 'YYYY-MM-DD' string is midnight UTC of that day
NewDate(x) ==
    IF x.t = "ymd" THEN DateAt(x.v * 24)
    ELSE IF x.t = "date" THEN x
    ELSE InvalidDate

\* the calendar day of a Date in the local time zone (getFullYear, getMonth, getDate)
LocalDay(h, z) == (h + z) \div 24

\* formatDateISO(date) in a process whose UTC offset is z hours
formatDateISO(x, z) ==
    IF x.t = "ymd" THEN x
    ELSE IF x.t = "date" THEN Ymd(LocalDay(x.v, z))
    ELSE EmptyDate

----------------------------------------------------------------------------
(* Transaction, Expense, Income *)

Record(id, amount, date, description, currency, createdAt, category, source, type) ==
    [id |-> id, amount |-> amount, date |-> date, description |-> description,
     currency |-> currency, createdAt |-> createdAt, category |-> category,
     source |-> source, type |-> type]

\* new Expense(amount, date, category, description, currency, id) at time t;
\* the caller supplies the fresh uuid when id is null
Expense(amount, date, category, description, currency, id, t, z) ==
    Record(id, amount, formatDateISO(date, z), description, currency, t,
           category, Undefined, "expense")

\* new Income(amount, date, source, description, currency, id)
Income(amount, date, source, description, currency, id, t, z) ==
    Record(id, amount, formatDateISO(date, z), description, currency, t,
           Undefined, source, "income")

\* Transaction.validate: the messages about the amount, the date, the description
AmountErrors(a) ==
    IF a.t \notin {"num", "nan", "inf"} THEN {"Amount must be a number"}
    ELSE IF a.t = "nan" THEN {"Amount cannot be NaN"}
    ELSE IF a.t = "inf" THEN {"Amount must be finite"}
    ELSE IF a.v <= 0 THEN {"Amount must be a positive number"}
    ELSE {}

DateErrors(d) ==
    IF d.t \in {"empty", "undef"} THEN {"Date is required"}
    ELSE IF NewDate(d).t = "baddate" THEN {"Date must be a valid date"}
    ELSE {}

DescriptionErrors(s) ==
    IF ~Falsy(s) /\ DescLength(s) > MaxDescription
    THEN {"Description is too long (max 500 characters)"}
    ELSE {}

TransactionErrors(r) ==
    AmountErrors(r.amount) \cup DateErrors(r.date) \cup DescriptionErrors(r.description)

\* Expense.validate / Income.validate: the errors of the value
Validate(r) ==
    TransactionErrors(r) \cup
    (IF r.type = "expense"
     THEN IF Falsy(r.category) THEN {"Category is required"}
          ELSE IF r.category \notin EXPENSE_CATEGORIES THEN {"Invalid category"}
          ELSE {}
     ELSE IF Falsy(r.source) THEN {"Source is required"}
          ELSE IF r.source \notin INCOME_SOURCES THEN {"Invalid source"}
          ELSE {})

\* a faulty variant: every value is taken as valid
IsValid_always(r) == TRUE

IsValid(r) == Validate(r) = {}

----------------------------------------------------------------------------
(* StorageService as the Transaction Service calls it: whole calls *)

\* writeData(data) when every file system call succeeds
WriteDataOk(d, c, t) ==
    LET d1 == WriteFileSync(d, tempPath, c)
        d2 == IF Exists(d1[dataFilePath])
              THEN CopyFileSync(RotateBackups(d1, t, "ok"), dataFilePath, backupPath)
              ELSE d1
        d3 == RenameSync(d2, tempPath, dataFilePath)
    IN  IF Exists(d3[backupPath]) THEN UnlinkSync(d3, backupPath) ELSE d3

\* writeData(data): ok, or thrown for a text beyond the cap (the catch
\* removes the temp file)
StorageWrite(d, doc, t) ==
    IF ByteLength(doc) > maxSize
    THEN [disk |-> IF Exists(d[tempPath]) THEN UnlinkSync(d, tempPath) ELSE d, ok |-> FALSE]
    ELSE [disk |-> WriteDataOk(d, Stringify(doc), t), ok |-> TRUE]

\* readData(), the backup and reset of an unparseable file included
StorageRead(d, t) ==
    LET o == ReadOutcome(d[dataFilePath])
    IN  IF o.r = "recover"
        THEN [disk |-> WriteDataOk([d EXCEPT !.corrupted = AddStamped(@, t, d[dataFilePath])],
                                   Stringify(EmptyDoc), t),
              ok |-> TRUE, doc |-> EmptyDoc]
        ELSE [disk |-> d, ok |-> o.r = "ok", doc |-> o.doc]

\* findIndex(e => e.id === id), 0 when there is none
RECURSIVE FindIndex(_, _, _)
FindIndex(s, id, k) ==
    IF k > Len(s) THEN 0
    ELSE IF s[k].id = id THEN k
    ELSE FindIndex(s, id, k + 1)

IdsOf(doc) ==
    {doc.expenses[k].id : k \in 1..Len(doc.expenses)} \cup
    {doc.income[k].id : k \in 1..Len(doc.income)}

RecordsOf(doc) ==
    {doc.expenses[k] : k \in 1..Len(doc.expenses)} \cup
    {doc.income[k] : k \in 1..Len(doc.income)}

\* the document a readData would return now
Stored == ReadOutcome(disk[dataFilePath]).doc

----------------------------------------------------------------------------
(* TransactionService *)

NoRecord ==
    Record(<< >>, UndefAmount, UndefDate, Undefined, Undefined, 0 - 1, Undefined,
           Undefined, "none")

\* the properties a caller gives (the arguments of an add, the updates of an
\* update); an absent one is undefined
Updates(amount, date, tag, description, currency) ==
    [amount |-> amount, date |-> date, tag |-> tag, description |-> description,
     currency |-> currency]

NoUpdates == Updates(UndefAmount, UndefDate, Undefined, Undefined, Undefined)

\* what a call returned, with the call's arguments and the document before it
Out(op, success, message, rec, id, updates, before) ==
    [op |-> op, success |-> success, message |-> message, rec |-> rec, id |-> id,
     updates |-> updates, before |-> before]

\* a call that ended in a thrown Error: the caller gets no result object
Thrown(op) == [op |-> op, thrown |-> "Failed to read data"]

\* the collection a type is stored in
Coll(type) == IF type = "expense" THEN "expenses" ELSE "income"

\* a faulty variant: the new record replaces the collection
StorageAdd_alone(d, r, t) ==
    LET rd == StorageRead(d, t)
    IN  StorageWrite(rd.disk, [rd.doc EXCEPT ![Coll(r.type)] = <<r>>], t)

\* storage.addExpense / addIncome: readData, push, writeData; a throw of either
\* is caught by the service and becomes a failure result
StorageAdd(d, r, t) ==
    LET rd == StorageRead(d, t)
        w == StorageWrite(rd.disk, [rd.doc EXCEPT ![Coll(r.type)] = Append(@, r)], t)
    IN  IF rd.ok THEN w ELSE [disk |-> rd.disk, ok |-> FALSE]

\* a faulty variant: the updated record is pushed, the old one stays
StorageUpdate_push(d, r, t) == StorageAdd(d, r, t)

\* storage.updateExpense / updateIncome: readData, replace at the index, writeData
StorageUpdate(d, r, t) ==
    LET rd == StorageRead(d, t)
        k == FindIndex(rd.doc[Coll(r.type)], r.id, 1)
        w == StorageWrite(rd.disk, [rd.doc EXCEPT ![Coll(r.type)][k] = r], t)
    IN  IF ~rd.ok THEN [disk |-> rd.disk, ok |-> FALSE]
        ELSE IF k = 0 THEN [disk |-> rd.disk, ok |-> TRUE]
        ELSE w

\* a call is counted; an added record's createdAt is remembered
Called(h, born) == [h EXCEPT !.calls = @ + 1, !.born = @ \cup born]

\* the Transaction Service calls of one run
MaxCalls == 3

\* addExpense / addIncome of the value r constructed from the arguments args,
\* with the uuid the constructor draws
Add(r, args) ==
    LET before == Stored
        w == StorageAdd(disk, r, now)
        op == IF r.type = "expense" THEN "addExpense" ELSE "addIncome"
    IN  /\ hist.calls < MaxCalls
        /\ r.id \notin IdsOf(before)
        /\ Len(before.expenses) + Len(before.income) < MaxRecords
        /\ IF ~IsValid(r)
           THEN /\ out' = Out(op, FALSE, Validate(r), NoRecord, r.id, args, before)
                /\ hist' = Called(hist, {})
                /\ UNCHANGED disk
           ELSE /\ disk' = w.disk
                /\ hist' = Called(hist, IF w.ok THEN {<<r.id, r.createdAt>>} ELSE {})
                /\ out' = IF w.ok
                          THEN Out(op, TRUE, {}, r, r.id, args, before)
                          ELSE Out(op, FALSE, {"Failed"}, NoRecord, r.id, args, before)
        /\ UNCHANGED <<now, proc, tz, rateSvc>>

AddExpense(amount, date, category, description, currency, id) ==
    Add(Expense(amount, date, category, description, currency, id, now, tz),
        Updates(amount, date, category, description, currency))

AddIncome(amount, date, source, description, currency, id) ==
    Add(Income(amount, date, source, description, currency, id, now, tz),
        Updates(amount, date, source, description, currency))

\* the value updateExpense / updateIncome reconstructs from the stored one
Merged(old, u, t, z) ==
    LET amount == IF u.amount # UndefAmount THEN u.amount ELSE old.amount
        date == IF u.date # UndefDate THEN NewDate(u.date) ELSE NewDate(old.date)
        description == IF u.description # Undefined THEN u.description ELSE old.description
        currency == IF u.currency # Undefined THEN u.currency
                    ELSE IF Falsy(old.currency) THEN "$" ELSE old.currency
    IN  IF old.type = "expense"
        THEN Expense(amount, date, IF u.tag # Undefined THEN u.tag ELSE old.category,
                     description, currency, old.id, t, z)
        ELSE Income(amount, date, IF u.tag # Undefined THEN u.tag ELSE old.source,
                    description, currency, old.id, t, z)

\* updateExpense(id, updates) / updateIncome(id, updates): getExpenseById,
\* reconstruct, validate, storage.updateExpense
Update(type, id, u) ==
    LET op == IF type = "expense" THEN "updateExpense" ELSE "updateIncome"
        rd == StorageRead(disk, now)
        k == FindIndex(rd.doc[Coll(type)], id, 1)
        new == Merged(rd.doc[Coll(type)][k], u, now, tz)
        w == StorageUpdate(rd.disk, new, now)
    IN  /\ hist.calls < MaxCalls
        /\ hist' = Called(hist, {})
        /\ IF ~rd.ok
           THEN /\ out' = Out(op, FALSE, {"Failed"}, NoRecord, id, u, rd.doc)
                /\ disk' = rd.disk
           ELSE IF k = 0
           THEN /\ out' = Out(op, FALSE, {"Not found"}, NoRecord, id, u, rd.doc)
                /\ disk' = rd.disk
           ELSE IF ~IsValid(new)
           THEN /\ out' = Out(op, FALSE, Validate(new), NoRecord, id, u, rd.doc)
                /\ disk' = rd.disk
           ELSE /\ disk' = w.disk
                /\ out' = IF w.ok
                          THEN Out(op, TRUE, {}, new, id, u, rd.doc)
                          ELSE Out(op, FALSE, {"Failed"}, NoRecord, id, u, rd.doc)
        /\ UNCHANGED <<now, proc, tz, rateSvc>>

UpdateExpense(id, u) == Update("expense", id, u)

UpdateIncome(id, u) == Update("income", id, u)

\* updateTransaction(id, updates): getTransactionById looks the id up in the
\* expenses, then in the income, and the call is dispatched on the type
\* (no try around the lookup: a throw of readData leaves the call as it is)
UpdateTransaction(id, u) ==
    LET rd == StorageRead(disk, now)
    IN  IF rd.ok /\ FindIndex(rd.doc.expenses, id, 1) # 0 THEN UpdateExpense(id, u)
        ELSE IF rd.ok /\ FindIndex(rd.doc.income, id, 1) # 0 THEN UpdateIncome(id, u)
        ELSE /\ hist.calls < MaxCalls
             /\ hist' = Called(hist, {})
             /\ out' = IF rd.ok
                       THEN Out("updateTransaction", FALSE, {"Not found"}, NoRecord, id, u,
                                rd.doc)
                       ELSE Thrown("updateTransaction")
             /\ disk' = rd.disk
             /\ UNCHANGED <<now, proc, tz, rateSvc>>

----------------------------------------------------------------------------
(* SpecRead: readData over every kind of data file that parses *)

\* the types a JSON value can have; "undef" is an absent property
JsonTypes == {"undef", "null", "num", "str", "bool", "arr", "obj"}

\* a stored element of a collection
SampleRecord == Expense(Num(1), Ymd(1), "Food", "Lunch", "$", <<1, 1>>, 0, 0)

\* a property of the top-level object of type t; v is its value when the
\* type is the one that holds values of this kind
Property(t, holds, v, none) == Field(t, IF t = holds THEN v ELSE none)

\* the texts JSON.parse accepts: an object with any typing of its three
\* properties, or a value that is no object
JsonContents ==
    {Content("json", size, "obj", Property(te, "arr", e, << >>),
             Property(ti, "arr", i, << >>), Property(ts, "obj", "prefs", "")) :
        size \in {1, maxSize + 1}, te \in JsonTypes, ti \in JsonTypes, ts \in JsonTypes,
        e \in {<< >>, <<SampleRecord>>}, i \in {<< >>}}
    \cup
    {Content("json", 1, top, UndefSeq, UndefSeq, UndefStr) :
        top \in {"null", "num", "str", "bool", "arr"}}

InitRead ==
    /\ \E c \in JsonContents : disk = Disk(c, NoFile, NoFile, {}, {})
    /\ now = 0
    /\ proc = [p \in Procs |-> NewProc(disk)]
    /\ hist = NoHist
    /\ tz = 0
    /\ rateSvc = NewService
    /\ out = NoOut

NextRead == ReadData(1) \/ ReadData(2)

SpecRead == InitRead /\ [][NextRead]_vars

\* C7: for every data file that parses, whatever the type of the top-level
\* value and of its properties, readData does not throw and returns the
\* stored expenses and income where they are arrays and [] where not, and the
\* stored settings where they are an object and {} where not
C7_ParseableContentCoerced ==
    \A p \in Procs :
        (/\ proc[p].pc = "idle" /\ proc[p].op = "read"
         /\ proc[p].seen.kind = "json" /\ proc[p].seen.size <= maxSize)
        => /\ proc[p].res = "ok"
           /\ proc[p].ret.expenses =
                 IF proc[p].seen.expenses.t = "arr" THEN proc[p].seen.expenses.v ELSE << >>
           /\ proc[p].ret.income =
                 IF proc[p].seen.income.t = "arr" THEN proc[p].seen.income.v ELSE << >>
           /\ proc[p].ret.settings =
                 IF proc[p].seen.settings.t = "obj" THEN proc[p].seen.settings.v ELSE ""

----------------------------------------------------------------------------
(* Specifications of the Transaction Service *)

\* the uuids the constructor can draw
IdPool == {<<1, 1>>, <<1, 2>>}

\* the UTC offsets, in hours, of the machines the program runs on
TzOffsets == {0 - 5, 0, 5}

\* the data file as the constructor of the store leaves it
InitSvc(zones) ==
    /\ disk = Disk(InitialFile, NoFile, NoFile, {}, {})
    /\ now = 0
    /\ proc = [p \in Procs |-> NewProc(disk)]
    /\ hist = NoHist
    /\ tz \in zones
    /\ rateSvc = NewService
    /\ out = NoOut

\* the amounts a caller passes
Amounts ==
    {Num(0 - 1), Num(0), Num(1), Num(MAX_AMOUNT), Num(MAX_AMOUNT + 1), NaN, Infinity,
     NotANumber}

\* SpecAmount: records are added and their amounts updated
InitAmount == InitSvc({0})

NextAmount ==
    \/ \E a \in Amounts, id \in IdPool : AddExpense(a, Ymd(1), "Food", "Lunch", "$", id)
    \/ \E a \in Amounts, id \in IdPool : AddIncome(a, Ymd(1), "Salary", "Wage", "$", id)
    \/ \E a \in Amounts, id \in IdPool :
          UpdateExpense(id, [NoUpdates EXCEPT !.amount = a])
    \/ \E a \in Amounts, id \in IdPool :
          UpdateIncome(id, [NoUpdates EXCEPT !.amount = a])

SpecAmount == InitAmount /\ [][NextAmount]_vars

InRange(a) == a.t = "num" /\ 0 < a.v /\ a.v <= MAX_AMOUNT

AmountMessages ==
    {"Amount must be a number", "Amount cannot be NaN", "Amount must be finite",
     "Amount must be a positive number"}

\* C8: a call that passes a numeric amount is accepted only when
\* 0 < amount <= 999,999,999 and is rejected with a message about the amount
\* otherwise, so every stored record has an amount in that range
C8_AmountWithinCap ==
    /\ out.op # "none" /\ out.updates.amount.t = "num" =>
          /\ out.success => InRange(out.updates.amount)
          /\ ~InRange(out.updates.amount) /\ out.message # {"Not found"} =>
                ~out.success /\ out.message \cap AmountMessages # {}
    /\ \A r \in RecordsOf(Stored) : InRange(r.amount)

\* the updates a caller passes: nothing, or one property
UpdateArgs ==
    {NoUpdates,
     [NoUpdates EXCEPT !.amount = Num(2)],
     [NoUpdates EXCEPT !.date = Ymd(2)],
     [NoUpdates EXCEPT !.tag = "Other"],
     [NoUpdates EXCEPT !.description = ""],
     [NoUpdates EXCEPT !.currency = "$"]}

\* SpecUpdate: records are added and updated while the clock runs, on a
\* machine in any of the time zones
InitUpdate == InitSvc(TzOffsets)

NextUpdate ==
    \/ \E d \in {Ymd(1), DateAt(36)}, id \in IdPool :
          AddExpense(Num(1), d, "Food", "Lunch", "€", id)
    \/ \E id \in IdPool : AddIncome(Num(1), Ymd(1), "Salary", "Wage", "€", id)
    \/ \E id \in IdPool, u \in UpdateArgs : UpdateExpense(id, u)
    \/ \E id \in IdPool, u \in UpdateArgs : UpdateIncome(id, u)
    \/ \E id \in IdPool, u \in UpdateArgs : UpdateTransaction(id, u)
    \/ Tick

SpecUpdate == InitUpdate /\ [][NextUpdate]_vars

\* the record of that id in a document
RecordOf(doc, id) == CHOOSE r \in RecordsOf(doc) : r.id = id

\* C9: after a successful updateExpense or updateIncome the stored record
\* keeps its id, and each of amount, date, category/source, description and
\* currency that is absent from updates has the value it had before
C9_AbsentFieldsKept ==
    out.op \in {"updateExpense", "updateIncome"} /\ out.success =>
        /\ out.id \in IdsOf(Stored)
        /\ LET old == RecordOf(out.before, out.id)
               new == RecordOf(Stored, out.id)
               u == out.updates
           IN  /\ new.type = old.type
               /\ u.amount = UndefAmount => new.amount = old.amount
               /\ u.date = UndefDate => new.date = old.date
               /\ u.tag = Undefined =>
                     new.category = old.category /\ new.source = old.source
               /\ u.description = Undefined => new.description = old.description
               /\ u.currency = Undefined => new.currency = old.currency

\* C10: the createdAt of a stored record is the one it received when the
\* record was added, whatever updates were made since
C10_CreatedAtImmutable ==
    \A r \in RecordsOf(Stored) :
        \A b \in hist.born : b[1] = r.id => r.createdAt = b[2]

----------------------------------------------------------------------------
(* TransactionService: deleting *)

\* a faulty variant: the records are dropped from the first match on
RECURSIVE Without_rest(_, _)
Without_rest(s, id) ==
    IF s = << >> THEN << >>
    ELSE IF Head(s).id = id THEN << >>
    ELSE <<Head(s)>> \o Without_rest(Tail(s), id)

\* the records of a sequence whose id is not id (filter(e => e.id !== id))
RECURSIVE Without(_, _)
Without(s, id) ==
    IF s = << >> THEN << >>
    ELSE IF Head(s).id = id THEN Without(Tail(s), id)
    ELSE <<Head(s)>> \o Without(Tail(s), id)

\* storage.deleteExpense / deleteIncome: readData, filter, writeData when a
\* record went away
StorageDelete(d, type, id, t) ==
    LET rd == StorageRead(d, t)
        left == Without(rd.doc[Coll(type)], id)
        w == StorageWrite(rd.disk, [rd.doc EXCEPT ![Coll(type)] = left], t)
    IN  IF ~rd.ok THEN [disk |-> rd.disk, ok |-> FALSE]
        ELSE IF Len(left) = Len(rd.doc[Coll(type)]) THEN [disk |-> rd.disk, ok |-> TRUE]
        ELSE w

\* deleteExpense(id) / deleteIncome(id): getExpenseById, storage.deleteExpense
Delete(type, id) ==
    LET op == IF type = "expense" THEN "deleteExpense" ELSE "deleteIncome"
        rd == StorageRead(disk, now)
        k == FindIndex(rd.doc[Coll(type)], id, 1)
        w == StorageDelete(rd.disk, type, id, now)
    IN  /\ hist.calls < MaxCalls
        /\ hist' = Called(hist, {})
        /\ IF ~rd.ok
           THEN /\ out' = Out(op, FALSE, {"Failed"}, NoRecord, id, NoUpdates, rd.doc)
                /\ disk' = rd.disk
           ELSE IF k = 0
           THEN /\ out' = Out(op, FALSE, {"Not found"}, NoRecord, id, NoUpdates, rd.doc)
                /\ disk' = rd.disk
           ELSE /\ disk' = w.disk
                /\ out' = IF w.ok
                          THEN Out(op, TRUE, {}, rd.doc[Coll(type)][k], id, NoUpdates, rd.doc)
                          ELSE Out(op, FALSE, {"Failed"}, NoRecord, id, NoUpdates, rd.doc)
        /\ UNCHANGED <<now, proc, tz, rateSvc>>

DeleteExpense(id) == Delete("expense", id)

DeleteIncome(id) == Delete("income", id)

\* deleteTransaction(id): getTransactionById, then the delete of its type
\* (the lookup is outside any try)
DeleteTransaction(id) ==
    LET rd == StorageRead(disk, now)
    IN  IF rd.ok /\ FindIndex(rd.doc.expenses, id, 1) # 0 THEN DeleteExpense(id)
        ELSE IF rd.ok /\ FindIndex(rd.doc.income, id, 1) # 0 THEN DeleteIncome(id)
        ELSE /\ hist.calls < MaxCalls
             /\ hist' = Called(hist, {})
             /\ out' = IF rd.ok
                       THEN Out("deleteTransaction", FALSE, {"Not found"}, NoRecord, id,
                                NoUpdates, rd.doc)
                       ELSE Thrown("deleteTransaction")
             /\ disk' = rd.disk
             /\ UNCHANGED <<now, proc, tz, rateSvc>>

----------------------------------------------------------------------------
(* SpecEdit: records are added, updated and deleted, with arguments that    *)
(* pass validation and arguments that do not                                *)

\* the arguments of an add or an update: the valid ones and the invalid ones
ExpenseArgs ==
    {Updates(Num(1), Ymd(1), "Food", "Lunch", "€"),
     Updates(Num(0), Ymd(1), "Food", "Lunch", "€"),
     Updates(Num(1), Ymd(1), "Bogus", "Lunch", "€")}

IncomeArgs ==
    {Updates(Num(3), Ymd(2), "Salary", "Wage", "$"),
     Updates(Num(3), BadDateString, "Salary", "Wage", "$")}

EditArgs ==
    {[NoUpdates EXCEPT !.amount = Num(2)],
     [NoUpdates EXCEPT !.amount = Num(0)],
     [NoUpdates EXCEPT !.tag = "Bogus"]}

\* the ids a caller passes: those of the pool and a proper prefix of them
AskedIds == IdPool \cup {<<1>>}

NextEdit ==
    \/ \E a \in ExpenseArgs, id \in IdPool :
          AddExpense(a.amount, a.date, a.tag, a.description, a.currency, id)
    \/ \E a \in IncomeArgs, id \in IdPool :
          AddIncome(a.amount, a.date, a.tag, a.description, a.currency, id)
    \/ \E id \in IdPool, u \in EditArgs : UpdateExpense(id, u)
    \/ \E id \in IdPool, u \in EditArgs : UpdateIncome(id, u)
    \/ \E id \in AskedIds : DeleteExpense(id)
    \/ \E id \in AskedIds : DeleteIncome(id)
    \/ \E id \in AskedIds : DeleteTransaction(id)

SpecEdit == InitSvc({0}) /\ [][NextEdit]_vars

\* the enumeration an update's category or source is checked against
Enumeration(op) ==
    IF op \in {"updateExpense", "addExpense"} THEN EXPENSE_CATEGORIES ELSE INCOME_SOURCES

\* updates that make the reconstructed value invalid
BadUpdate(op, u) ==
    \/ u.amount # UndefAmount /\ ~(u.amount.t = "num" /\ u.amount.v > 0)
    \/ u.tag # Undefined /\ u.tag \notin Enumeration(op)

\* C11: an updateExpense or updateIncome of a stored record whose
\* reconstructed value fails validation (a category or source outside the
\* enumeration, an amount that is not positive) returns a failure result and
\* writes nothing: the directory, the stored document with it, is unchanged
C11_InvalidUpdateWritesNothing ==
    [][(/\ hist'.calls # hist.calls
        /\ out'.op \in {"updateExpense", "updateIncome"}
        /\ out'.message # {"Not found"}
        /\ BadUpdate(out'.op, out'.updates))
       => (/\ ~out'.success
           /\ out'.message # {}
           /\ disk' = disk)]_vars

\* an update of a stored expense to a category outside the enumeration was refused
C11_Witness ==
    /\ out.op = "updateExpense" /\ ~out.success
    /\ out.updates.tag = "Bogus"
    /\ "Invalid category" \in out.message
    /\ out.id \in IdsOf(Stored)
    /\ RecordOf(Stored, out.id).category = "Food"

\* C12: starting from the empty document, after any sequence of adds,
\* updates and deletes no two stored records, expenses and income together,
\* share an id
C12_IdsUnique ==
    Cardinality(IdsOf(Stored)) = Len(Stored.expenses) + Len(Stored.income)

\* an expense and an income are stored and one of them has been updated
C12_Witness ==
    /\ out.op = "updateExpense" /\ out.success
    /\ Len(Stored.expenses) = 1 /\ Len(Stored.income) = 1
    /\ Cardinality(IdsOf(Stored)) = 2

----------------------------------------------------------------------------
(* SpecRoundTrip: toJSON and fromJSON of the domain model *)

\* toJSON(): the properties of the value, copied one by one
toJSON(r) ==
    Record(r.id, r.amount, r.date, r.description, r.currency, r.createdAt,
           IF r.type = "expense" THEN r.category ELSE Undefined,
           IF r.type = "income" THEN r.source ELSE Undefined, r.type)

\* Expense.fromJSON(json) / Income.fromJSON(json) at time t: the constructor
\* with json.description || '' and json.currency || '$', then createdAt restored
fromJSON(json, t, z) ==
    LET description == IF Falsy(json.description) THEN "" ELSE json.description
        currency == IF Falsy(json.currency) THEN "$" ELSE json.currency
        made == IF json.type = "expense"
                THEN Expense(json.amount, json.date, json.category, description, currency,
                             json.id, t, z)
                ELSE Income(json.amount, json.date, json.source, description, currency,
                            json.id, t, z)
    IN  [made EXCEPT !.createdAt = json.createdAt]

\* the values a caller can construct
Values(z) ==
    {Expense(a, d, c, s, cur, id, 0, z) :
        a \in {Num(0), Num(1), NaN}, d \in {Ymd(1), DateAt(36), BadDateString},
        c \in {"Food", "Bogus"}, s \in {"", "Lunch", "long"}, cur \in {"$", "€", ""},
        id \in IdPool}
    \cup
    {Income(a, d, c, s, cur, id, 0, z) :
        a \in {Num(0), Num(1), NaN}, d \in {Ymd(1), DateAt(36), BadDateString},
        c \in {"Salary", "Bogus"}, s \in {"", "Lunch", "long"}, cur \in {"$", "€", ""},
        id \in IdPool}

InitRoundTrip ==
    /\ disk = Disk(InitialFile, NoFile, NoFile, {}, {})
    /\ now = 0
    /\ proc = [p \in Procs |-> NewProc(disk)]
    /\ hist = NoHist
    /\ tz \in TzOffsets
    /\ rateSvc = NewService
    /\ \E v \in Values(tz) : out = [op |-> "value", value |-> v]

\* fromJSON(value.toJSON()) a moment later
RoundTrip ==
    /\ out.op = "value"
    /\ now < MaxTime
    /\ now' = now + 1
    /\ out' = [op |-> "fromJSON", value |-> out.value,
               back |-> fromJSON(toJSON(out.value), now', tz)]
    /\ UNCHANGED <<disk, proc, hist, tz, rateSvc>>

NextRoundTrip == RoundTrip

SpecRoundTrip == InitRoundTrip /\ [][NextRoundTrip]_vars

\* C13: for every Expense or Income value that validate() reports valid,
\* fromJSON(toJSON(value)) has the same id, amount, date, category or source,
\* description and currency as the value
C13_RoundTripEqual ==
    out.op = "fromJSON" /\ IsValid(out.value) =>
        /\ out.back.id = out.value.id
        /\ out.back.amount = out.value.amount
        /\ out.back.date = out.value.date
        /\ out.back.category = out.value.category
        /\ out.back.source = out.value.source
        /\ out.back.description = out.value.description
        /\ out.back.currency = out.value.currency

\* the collection an add does not touch
OtherColl(op) == IF op = "addExpense" THEN "income" ELSE "expenses"

\* the collection an add appends to
OwnColl(op) == IF op = "addExpense" THEN "expenses" ELSE "income"

\* C14: an addExpense or addIncome that fails validation returns a failure
\* result with the messages and leaves the stored document as it was; one
\* that succeeds appends exactly one record to the matching collection,
\* leaves every earlier record and the settings as they were, and returns
\* the record it stored
C14_AddAppendsOne ==
    out.op \in {"addExpense", "addIncome"} =>
        IF out.success
        THEN /\ Stored[OwnColl(out.op)] = Append(out.before[OwnColl(out.op)], out.rec)
             /\ Stored[OtherColl(out.op)] = out.before[OtherColl(out.op)]
             /\ Stored.settings = out.before.settings
             /\ out.rec.type = (IF out.op = "addExpense" THEN "expense" ELSE "income")
        ELSE /\ out.message # {}
             /\ out.rec = NoRecord
             /\ Stored = out.before

\* an income was added after an expense, which is still stored
C14_Witness ==
    /\ out.op = "addIncome" /\ out.success
    /\ Len(out.before.expenses) = 1
    /\ Stored.expenses = out.before.expenses
    /\ Len(Stored.income) = 1

----------------------------------------------------------------------------
(* SpecCreate: the front ends' ways into addExpense and addIncome *)

\* the calendar day, in local time, on which the program runs
Today == 2

\* the days a user enters: yesterday, today, tomorrow
EnteredDays == {Today - 1, Today, Today + 1}

\* a call that a front end refused before it reached the service
Refused(op, message, id, args) ==
    /\ hist.calls < MaxCalls
    /\ hist' = Called(hist, {})
    /\ out' = Out(op, FALSE, {message}, NoRecord, id, args, Stored)
    /\ UNCHANGED <<disk, now, proc, tz, rateSvc>>

\* ipcMain.handle('add-expense'): the data of the request goes to addExpense as it is
IpcAddExpense(d, id) == AddExpense(Num(1), Ymd(d), "Food", "Lunch", "€", id)

\* ipcMain.handle('add-income')
IpcAddIncome(d, id) == AddIncome(Num(1), Ymd(d), "Salary", "Wage", "€", id)

\* the add form of the renderer: amount and date are checked, the date by
\* new Date(date) and setHours(0, 0, 0, 0) against today, then window.expenseTracker.addExpense
FormSubmit(n, d, id) ==
    LET args == Updates(Num(n), Ymd(d), "Food", "Lunch", "€")
    IN  IF n <= 0 THEN Refused("form", "Amount must be a positive number", id, args)
        ELSE IF n > MAX_AMOUNT THEN Refused("form", "Amount is too large", id, args)
        ELSE IF LocalDay(NewDate(Ymd(d)).v, tz) > Today
        THEN Refused("form", "Date cannot be in the future", id, args)
        ELSE AddExpense(Num(n), Ymd(d), "Food", "Lunch", "€", id)

\* the command line: validateDate (parseDate, isNotFutureDate) gives a Date at
\* local midnight of the day entered, which goes to addExpense
CliAddExpense(d, id) ==
    LET date == DateAt(24 * d - tz)
    IN  IF LocalDay(date.v, tz) > Today
        THEN Refused("cli", "Date cannot be in the future", id,
                     Updates(Num(1), date, "Food", "Lunch", "€"))
        ELSE AddExpense(Num(1), date, "Food", "Lunch", "€", id)

NextCreate ==
    \/ \E d \in EnteredDays, id \in IdPool : IpcAddExpense(d, id)
    \/ \E d \in EnteredDays, id \in IdPool : IpcAddIncome(d, id)
    \/ \E n \in {0, 1, MAX_AMOUNT + 1}, d \in EnteredDays, id \in IdPool : FormSubmit(n, d, id)
    \/ \E d \in EnteredDays, id \in IdPool : CliAddExpense(d, id)

SpecCreate == InitSvc(TzOffsets) /\ [][NextCreate]_vars

\* C15: no record created through addExpense or addIncome has a date later
\* than the current day: a creation with a future date is refused and
\* nothing is stored
C15_NoFutureDateStored ==
    \A r \in RecordsOf(Stored) : r.date.t = "ymd" /\ r.date.v <= Today

----------------------------------------------------------------------------
(* TransactionService: queries *)

\* filters: the properties a caller gives; an absent one is undefined
Filters(type, startDate, endDate, category, source) ==
    [type |-> type, startDate |-> startDate, endDate |-> endDate,
     category |-> category, source |-> source]

\* a date argument that JS takes as true ('' and undefined are not)
Truthy(x) == x.t \notin {"undef", "empty"}

\* the local calendar day setHours(0, 0, 0, 0) cuts new Date(x) down to
LocalMidnight(x, z) == LocalDay(NewDate(x).v, z)

\* isDateInRange(date, startDate, endDate)
isDateInRange(date, startDate, endDate, z) ==
    IF NewDate(date).t # "date" THEN FALSE
    ELSE IF /\ Truthy(startDate) /\ NewDate(startDate).t = "date"
            /\ LocalMidnight(date, z) < LocalMidnight(startDate, z) THEN FALSE
    ELSE IF /\ Truthy(endDate) /\ NewDate(endDate).t = "date"
            /\ LocalMidnight(date, z) > LocalMidnight(endDate, z) THEN FALSE
    ELSE TRUE

\* new Date(b.date) - new Date(a.date) <= 0: a does not come after b
NotAfter(a, b) == NewDate(a.date).v >= NewDate(b.date).v

\* t put into a sorted sequence behind the records that do not come after it
RECURSIVE Insert(_, _)
Insert(s, t) ==
    IF s = << >> THEN <<t>>
    ELSE IF NotAfter(Head(s), t) THEN <<Head(s)>> \o Insert(Tail(s), t)
    ELSE <<t>> \o s

\* transactions.sort((a, b) => new Date(b.date) - new Date(a.date)): newest
\* first, records of the same date in their order
RECURSIVE SortByDate(_)
SortByDate(s) ==
    IF s = << >> THEN << >>
    ELSE Insert(SortByDate(SubSeq(s, 1, Len(s) - 1)), s[Len(s)])

\* getTransactions(filters) over the stored document doc
getTransactions(doc, f, z) ==
    LET all == doc.expenses \o doc.income
        typed == IF f.type = "expense" THEN SelectSeq(all, LAMBDA t : t.type = "expense")
                 ELSE IF f.type = "income" THEN SelectSeq(all, LAMBDA t : t.type = "income")
                 ELSE all
        dated == IF Truthy(f.startDate) \/ Truthy(f.endDate)
                 THEN SelectSeq(typed,
                                LAMBDA t : isDateInRange(t.date, f.startDate, f.endDate, z))
                 ELSE typed
        ofCategory == IF ~Falsy(f.category)
                      THEN SelectSeq(dated, LAMBDA t : t.type = "expense" /\ t.category = f.category)
                      ELSE dated
        ofSource == IF ~Falsy(f.source)
                    THEN SelectSeq(ofCategory, LAMBDA t : t.type = "income" /\ t.source = f.source)
                    ELSE ofCategory
    IN  SortByDate(ofSource)

\* a faulty variant: obj[key] = n
Bump_set(obj, key, n) == [k \in DOMAIN obj \cup {key} |-> IF k = key THEN n ELSE obj[k]]

\* obj[key] = (obj[key] || 0) + n
Bump(obj, key, n) ==
    [k \in DOMAIN obj \cup {key} |->
        IF k = key THEN (IF key \in DOMAIN obj THEN obj[key] ELSE 0) + n ELSE obj[k]]

\* the empty object {}
NoTotals == [k \in {} |-> 0]

\* the accumulators of getSummary before the loop
NoSummary ==
    [totalIncome |-> 0, totalExpenses |-> 0, byCategory |-> NoTotals, bySource |-> NoTotals,
     expenseCount |-> 0, incomeCount |-> 0]

\* transactions.forEach(t => ...) of getSummary
RECURSIVE Accumulate(_, _)
Accumulate(ts, acc) ==
    IF ts = << >> THEN acc
    ELSE LET t == Head(ts)
         IN  IF t.type = "expense"
             THEN Accumulate(Tail(ts),
                     [acc EXCEPT !.totalExpenses = @ + t.amount.v,
                                 !.expenseCount = @ + 1,
                                 !.byCategory = Bump(@, IF Falsy(t.category) THEN "Other"
                                                        ELSE t.category, t.amount.v)])
             ELSE Accumulate(Tail(ts),
                     [acc EXCEPT !.totalIncome = @ + t.amount.v,
                                 !.incomeCount = @ + 1,
                                 !.bySource = Bump(@, IF Falsy(t.source) THEN "Other"
                                                      ELSE t.source, t.amount.v)])

\* getSummary(filters)
getSummary(doc, f, z) ==
    LET transactions == getTransactions(doc, f, z)
        acc == Accumulate(transactions, NoSummary)
    IN  [totalIncome |-> acc.totalIncome, totalExpenses |-> acc.totalExpenses,
         balance |-> acc.totalIncome - acc.totalExpenses,
         byCategory |-> acc.byCategory, bySource |-> acc.bySource,
         transactionCount |-> Len(transactions),
         expenseCount |-> acc.expenseCount, incomeCount |-> acc.incomeCount]

\* id.startsWith(p)
StartsWith(id, p) == Len(p) <= Len(id) /\ SubSeq(id, 1, Len(p)) = p

\* a faulty variant: the index of the last match
RECURSIVE FindPrefix_last(_, _, _)
FindPrefix_last(s, p, k) ==
    IF k > Len(s) THEN 0
    ELSE LET later == FindPrefix_last(s, p, k + 1)
         IN  IF later # 0 THEN later
             ELSE IF StartsWith(s[k].id, p) THEN k
             ELSE 0

\* s.find(e => e.id && e.id.startsWith(p)): the index, 0 when there is none
RECURSIVE FindPrefix(_, _, _)
FindPrefix(s, p, k) ==
    IF k > Len(s) THEN 0
    ELSE IF StartsWith(s[k].id, p) THEN k
    ELSE FindPrefix(s, p, k + 1)

\* null
NotFound == [type |-> "none", transaction |-> NoRecord]

\* findTransactionById(partialId)
findTransactionById(doc, p) ==
    LET e == FindPrefix(doc.expenses, p, 1)
        i == FindPrefix(doc.income, p, 1)
    IN  IF e # 0 THEN [type |-> "expense", transaction |-> doc.expenses[e]]
        ELSE IF i # 0 THEN [type |-> "income", transaction |-> doc.income[i]]
        ELSE NotFound


----------------------------------------------------------------------------
(* SpecQuery: one query over a stored document *)

\* a stored expense: the amount and the currency differ with day and category
StoredExpense(d, category, id) ==
    Expense(Num(IF category = "Food" THEN d ELSE d + 3), Ymd(d), category, "Lunch",
            IF category = "Food" THEN "$" ELSE "€", id, 0, 0)

\* a stored income
StoredIncome(d, source, id) ==
    Income(Num(IF source = "Salary" THEN 10 * d ELSE 10 * d + 5), Ymd(d), source, "Wage",
           "$", id, 0, 0)

\* the day and the category or source of the records a document can hold
ExpensePool == {<<1, "Food">>, <<2, "Food">>, <<3, "Food">>, <<2, "Transport">>}

IncomePool == {<<2, "Salary">>, <<3, "Gift">>}

\* the expenses of a document: the ids run against the storage order
ExpenseSeqs ==
    UNION {{[k \in 1..n |-> StoredExpense(c[k][1], c[k][2], <<1, n + 1 - k>>)] :
               c \in [1..n -> ExpensePool]} : n \in 0..MaxRecords}

IncomeSeqs ==
    UNION {{[k \in 1..n |-> StoredIncome(c[k][1], c[k][2], <<2, k>>)] :
               c \in [1..n -> IncomePool]} : n \in 0..1}

InitQuery ==
    /\ \E e \in ExpenseSeqs, i \in IncomeSeqs :
          disk = Disk(Stringify(Doc(e, i, "")), NoFile, NoFile, {}, {})
    /\ now = 0
    /\ proc = [p \in Procs |-> NewProc(disk)]
    /\ hist = NoHist
    /\ tz \in TzOffsets
    /\ rateSvc = NewService
    /\ out = NoOut

\* a bound of a date range: absent, the day as 'YYYY-MM-DD', the day as the
\* Date at its local midnight that parseDate makes
RangeBounds(d, z) == {UndefDate, Ymd(d), DateAt(24 * d - z)}

\* the filters a caller passes
FilterSet(z) ==
    {Filters(type, startDate, endDate, category, source) :
        type \in {Undefined, "expense", "income"},
        startDate \in RangeBounds(2, z), endDate \in RangeBounds(2, z),
        category \in {Undefined, "Food"}, source \in {Undefined, "Salary"}}

\* what a query returned, with its argument
Answer(op, arg, result) == [op |-> op, arg |-> arg, result |-> result]

\* a query reads the store through getExpenses / getIncome: a throw of
\* readData goes to the caller
Query(op, arg, rd, result) ==
    /\ out = NoOut
    /\ out' = IF rd.ok THEN Answer(op, arg, result) ELSE Thrown(op)
    /\ disk' = rd.disk
    /\ UNCHANGED <<now, proc, hist, tz, rateSvc>>

GetTransactions(f) ==
    LET rd == StorageRead(disk, now)
    IN  Query("getTransactions", f, rd, getTransactions(rd.doc, f, tz))

GetSummary(f) ==
    LET rd == StorageRead(disk, now)
    IN  Query("getSummary", f, rd, getSummary(rd.doc, f, tz))

\* the partial ids a caller passes
Prefixes == {<< >>, <<1>>, <<2>>, <<3>>, <<1, 1>>, <<1, 2>>, <<2, 1>>, <<1, 1, 1>>}

FindTransactionById(p) ==
    LET rd == StorageRead(disk, now)
    IN  Query("findTransactionById", p, rd, findTransactionById(rd.doc, p))

NextQuery ==
    \/ \E f \in FilterSet(tz) : GetTransactions(f)
    \/ \E f \in FilterSet(tz) : GetSummary(f)
    \/ \E p \in Prefixes : FindTransactionById(p)

SpecQuery == InitQuery /\ [][NextQuery]_vars

\* C16: getTransactions applies the category filter only when filters.type
\* is 'expense' and the source filter only when it is 'income': with any
\* other type a given category or source does not change the result
C16_FilterOnlyWithItsType ==
    out.op = "getTransactions" =>
        /\ out.arg.type # "expense" =>
              out.result = getTransactions(Stored, [out.arg EXCEPT !.category = Undefined], tz)
        /\ out.arg.type # "income" =>
              out.result = getTransactions(Stored, [out.arg EXCEPT !.source = Undefined], tz)

\* the calendar day a range bound names: the day of a 'YYYY-MM-DD' string,
\* the local day of a Date
CalendarDay(x, z) == IF x.t = "ymd" THEN x.v ELSE LocalDay(x.v, z)

\* the positions of the stored expenses of that category dated within the bounds
InRangePositions(doc, f, z) ==
    {k \in 1..Len(doc.expenses) :
        /\ doc.expenses[k].category = f.category
        /\ CalendarDay(f.startDate, z) <= doc.expenses[k].date.v
        /\ doc.expenses[k].date.v <= CalendarDay(f.endDate, z)}

\* C17: for filters {type: 'expense', category, startDate, endDate}
\* getTransactions returns exactly the stored expenses of that category whose
\* date lies between the bounds as calendar dates, both bounds included,
\* whether they are 'YYYY-MM-DD' strings or Date values, newest first
C17_RangeIsInclusive ==
    (/\ out.op = "getTransactions"
     /\ out.arg.type = "expense" /\ out.arg.category # Undefined
     /\ out.arg.source = Undefined
     /\ Truthy(out.arg.startDate) /\ Truthy(out.arg.endDate))
    => /\ {out.result[k] : k \in 1..Len(out.result)} =
             {Stored.expenses[k] : k \in InRangePositions(Stored, out.arg, tz)}
       /\ Len(out.result) = Cardinality(InRangePositions(Stored, out.arg, tz))
       /\ \A i, j \in 1..Len(out.result) :
             i < j => out.result[i].date.v >= out.result[j].date.v

\* the sum of the amounts of the records of a sequence at the positions K
RECURSIVE SumAt(_, _)
SumAt(s, K) ==
    IF K = {} THEN 0
    ELSE LET k == CHOOSE x \in K : TRUE
         IN  s[k].amount.v + SumAt(s, K \ {k})

\* the sum of the values of an object
RECURSIVE SumOver(_, _)
SumOver(obj, K) ==
    IF K = {} THEN 0
    ELSE LET k == CHOOSE x \in K : TRUE
         IN  obj[k] + SumOver(obj, K \ {k})

\* the positions of the records of a type in a sequence
OfType(s, type) == {k \in 1..Len(s) : s[k].type = type}

\* C18: getSummary returns totalIncome and totalExpenses equal to the sums
\* of the stored amounts, taken as they are whatever their currency, of the
\* income and the expenses that getTransactions(filters) selects; balance is
\* their difference; the per-category totals add up to totalExpenses and the
\* per-source totals to totalIncome; expenseCount + incomeCount =
\* transactionCount = the number of selected records.  Amounts are whole
\* numbers here, so the sums are exact.
C18_SummaryAddsUp ==
    out.op = "getSummary" =>
        LET sel == getTransactions(Stored, out.arg, tz)
            r == out.result
        IN  /\ r.totalExpenses = SumAt(sel, OfType(sel, "expense"))
            /\ r.totalIncome = SumAt(sel, OfType(sel, "income"))
            /\ r.balance = r.totalIncome - r.totalExpenses
            /\ SumOver(r.byCategory, DOMAIN r.byCategory) = r.totalExpenses
            /\ SumOver(r.bySource, DOMAIN r.bySource) = r.totalIncome
            /\ r.expenseCount = Cardinality(OfType(sel, "expense"))
            /\ r.incomeCount = Cardinality(OfType(sel, "income"))
            /\ r.expenseCount + r.incomeCount = r.transactionCount
            /\ r.transactionCount = Len(sel)

\* a summary over an expense in $, an expense in € and an income
C18_Witness ==
    /\ out.op = "getSummary"
    /\ out.arg = Filters(Undefined, UndefDate, UndefDate, Undefined, Undefined)
    /\ out.result.expenseCount = 2 /\ out.result.incomeCount = 1
    /\ DOMAIN out.result.byCategory = {"Food", "Transport"}
    /\ {Stored.expenses[k].currency : k \in 1..Len(Stored.expenses)} = {"$", "€"}
    /\ out.result.totalExpenses = 6
    /\ out.result.balance = 14

\* the positions of the records of a sequence whose id starts with p
Matches(s, p) == {k \in 1..Len(s) : StartsWith(s[k].id, p)}

\* the first of a set of positions
First(K) == CHOOSE k \in K : \A x \in K : k <= x

\* C19: findTransactionById(p) returns the first expense in storage order
\* whose id starts with p, tagged 'expense'; when no expense matches, the
\* first income in storage order whose id starts with p, tagged 'income';
\* not-found exactly when no stored id starts with p; and it never changes
\* the document
C19_FirstPrefixMatch ==
    [][(out' # out /\ out'.op = "findTransactionById") =>
         LET p == out'.arg
             e == Matches(Stored.expenses, p)
             i == Matches(Stored.income, p)
         IN  /\ disk' = disk
             /\ IF e # {}
                THEN out'.result = [type |-> "expense",
                                    transaction |-> Stored.expenses[First(e)]]
                ELSE IF i # {}
                THEN out'.result = [type |-> "income",
                                    transaction |-> Stored.income[First(i)]]
                ELSE out'.result = NotFound]_vars

\* two expenses and an income are stored, the prefix matches both expenses
\* and the answer is the first of them
C19_Witness ==
    /\ out.op = "findTransactionById" /\ out.arg = <<1>>
    /\ Len(Stored.expenses) = 2 /\ Len(Stored.income) = 1
    /\ Matches(Stored.expenses, out.arg) = {1, 2}
    /\ out.result.type = "expense"
    /\ out.result.transaction = Stored.expenses[1]
    /\ Stored.expenses[1] # Stored.expenses[2]

\* the collection a delete works on
DeleteColl(op) == IF op = "deleteExpense" THEN "expenses" ELSE "income"

\* the collection a delete leaves alone
DeleteOther(op) == IF op = "deleteExpense" THEN "income" ELSE "expenses"

\* C20 as stated: a delete of an id that no stored record has exactly fails
\* and leaves the document unchanged; otherwise the record with that id is
\* removed from its own collection, and every other record and the settings
\* are unchanged
C20_DeleteAnyRecordOfId ==
    out.op \in {"deleteExpense", "deleteIncome", "deleteTransaction"} =>
        IF out.id \notin IdsOf(out.before)
        THEN ~out.success /\ Stored = out.before
        ELSE /\ out.success
             /\ out.id \notin IdsOf(Stored)
             /\ RecordsOf(Stored) = RecordsOf(out.before) \ {RecordOf(out.before, out.id)}
             /\ Stored.settings = out.before.settings

\* C20 (amended): deleteExpense looks among the expenses, deleteIncome among
\* the income, deleteTransaction among both, for a record of exactly that id
\* (a stored id that merely starts with it does not count).  When there is
\* none the call returns a failure result and the document is unchanged;
\* otherwise that record is removed from its collection, and every other
\* record and the settings are unchanged
C20_DeleteExactId ==
    /\ out.op \in {"deleteExpense", "deleteIncome"} =>
          LET own == out.before[DeleteColl(out.op)]
          IN  IF \A k \in 1..Len(own) : own[k].id # out.id
              THEN ~out.success /\ Stored = out.before
              ELSE /\ out.success
                   /\ Stored[DeleteColl(out.op)] = SelectSeq(own, LAMBDA r : r.id # out.id)
                   /\ Len(Stored[DeleteColl(out.op)]) = Len(own) - 1
                   /\ Stored[DeleteOther(out.op)] = out.before[DeleteOther(out.op)]
                   /\ Stored.settings = out.before.settings
    /\ out.op = "deleteTransaction" =>
          /\ ~out.success
          /\ out.id \notin IdsOf(out.before)
          /\ Stored = out.before

\* the first of two stored expenses was deleted and the second is still stored
C20_Witness ==
    /\ out.op = "deleteExpense" /\ out.success
    /\ Len(out.before.expenses) = 2
    /\ out.before.expenses[1].id = out.id
    /\ Stored.expenses = <<out.before.expenses[2]>>

----------------------------------------------------------------------------
(* SpecStoreFault: the Transaction Service over a data file that another   *)
(* program removes or blows up beyond the size cap                         *)

\* what can happen to the data file: it is removed (statSync throws ENOENT)
\* or grows beyond 10 MiB (readData throws 'Data file too large')
Faults == {NoFile, BigGarbage}

NextStoreFault ==
    \/ \E c \in Faults : Tamper(c)
    \/ \E id \in IdPool : AddExpense(Num(1), Ymd(1), "Food", "Lunch", "€", id)
    \/ \E id \in IdPool : AddIncome(Num(3), BadDateString, "Salary", "Wage", "$", id)
    \/ \E id \in IdPool, u \in EditArgs : UpdateExpense(id, u)
    \/ \E id \in IdPool : DeleteExpense(id)
    \/ \E id \in IdPool, u \in EditArgs : UpdateTransaction(id, u)
    \/ \E id \in IdPool : DeleteTransaction(id)
    \/ \E f \in FilterSet(tz) : GetTransactions(f)
    \/ \E f \in FilterSet(tz) : GetSummary(f)
    \/ \E p \in Prefixes : FindTransactionById(p)

SpecStoreFault == InitSvc({0}) /\ [][NextStoreFault]_vars

\* C21: a Transaction Service call (add, update, delete or query) that meets
\* a failure of the Record Store ends in a thrown error and never in a
\* {success: false} result; a result is given only for a validation failure
\* (found before the store is touched) or a record that is not there
C21_StoreFailureIsThrown ==
    [][((hist'.calls # hist.calls \/ out' # out) /\ ~StorageRead(disk, now).ok)
       => (\/ out' = Thrown(out'.op)
           \/ out'.op \in {"addExpense", "addIncome"} /\ out'.message # {"Failed"})]_vars

----------------------------------------------------------------------------
(* ExchangeRateService *)

\* 24 * 60 * 60 * 1000 ms; the clock of SpecRates ticks every 12 hours
CACHE_DURATION == 2

\* STATIC_RATES['USD'], in hundredths
STATIC_RATES_USD ==
    [EUR |-> 92, GBP |-> 79, INR |-> 8300, JPY |-> 14800, CNY |-> 710, CAD |-> 135,
     AUD |-> 152, CHF |-> 88, BRL |-> 495, USD |-> 100]

SYMBOL_TO_CODE ==
    ("$" :> "USD") @@ ("€" :> "EUR") @@ ("£" :> "GBP") @@ ("₹" :> "INR") @@
    ("¥" :> "JPY") @@ ("C$" :> "CAD") @@ ("A$" :> "AUD") @@ ("Fr" :> "CHF") @@
    ("R$" :> "BRL")

\* the symbol and the code of each supported currency of the configuration
CURRENCY_OPTIONS ==
    {<<"$", "USD">>, <<"€", "EUR">>, <<"£", "GBP">>, <<"₹", "INR">>, <<"¥", "JPY">>,
     <<"¥", "CNY">>, <<"C$", "CAD">>, <<"A$", "AUD">>, <<"Fr", "CHF">>, <<"R$", "BRL">>}

\* SYMBOL_TO_CODE[symbol] || symbol
getCodeFromSymbol(symbol) ==
    IF symbol \in DOMAIN SYMBOL_TO_CODE THEN SYMBOL_TO_CODE[symbol] ELSE symbol

\* numbers that are no integers are held as a fraction in lowest terms
RECURSIVE GCD(_, _)
GCD(a, b) == IF b = 0 THEN a ELSE GCD(b, a % b)

Quotient(n, d) == LET g == GCD(n, d) IN [n |-> n \div g, d |-> d \div g]

\* rates[code]: 0 stands for undefined (both are falsy)
RateOf(rates, code) == IF code \in DOMAIN rates THEN rates[code] ELSE 0

\* a faulty variant: the two rates are swapped
CrossConvert_swapped(rates, amount, fromCode, toCode) ==
    LET fromRate == RateOf(rates, fromCode)
        toRate == RateOf(rates, toCode)
    IN  IF fromRate = 0 \/ toRate = 0 THEN Quotient(amount, 1)
        ELSE Quotient(amount * fromRate, toRate)

\* if (!fromRate || !toRate) return amount; return (amount / fromRate) * toRate
CrossConvert(rates, amount, fromCode, toCode) ==
    LET fromRate == RateOf(rates, fromCode)
        toRate == RateOf(rates, toCode)
    IN  IF fromRate = 0 \/ toRate = 0 THEN Quotient(amount, 1)
        ELSE Quotient(amount * toRate, fromRate)

\* a faulty variant: rates as old as the window are expired
getCachedRates_strict(c, baseCurrency, t) ==
    IF c.rates.t # "object" \/ c.timestamp.t # "number" \/ c.timestamp.v = 0
       \/ c.baseCurrency # baseCurrency
    THEN NullRates
    ELSE IF t - c.timestamp.v >= CACHE_DURATION THEN NullRates
    ELSE c.rates

\* getCachedRates(baseCurrency) at time t
getCachedRates(c, baseCurrency, t) ==
    IF c.rates.t # "object" \/ c.timestamp.t # "number" \/ c.timestamp.v = 0
       \/ c.baseCurrency # baseCurrency
    THEN NullRates
    ELSE IF t - c.timestamp.v > CACHE_DURATION THEN NullRates
    ELSE c.rates

\* what comes back from fetch(API_URL): kind "error" (fetch rejects), "status"
\* (response.ok is false), "badjson" (response.json() rejects), "json" (a
\* parsed body, rates being its rates property)
Response(kind, rates) == [kind |-> kind, rates |-> rates]
NoResponse == Response("none", UndefRates)

\* a faulty variant: a failed request is thrown on
fetchRates_rethrow(c, resp, t) ==
    IF resp.kind # "json"
    THEN [cache |-> c, ret |-> NullRates, threw |-> TRUE]
    ELSE [cache |-> Cache(resp.rates, "USD", Stamp(t)), ret |-> resp.rates, threw |-> FALSE]

\* fetchRates() from the moment the request settles, at time t: the catch
\* turns every error into null
fetchRates(c, resp, t) ==
    IF resp.kind # "json"
    THEN [cache |-> c, ret |-> NullRates, threw |-> FALSE]
    ELSE [cache |-> Cache(resp.rates, "USD", Stamp(t)), ret |-> resp.rates, threw |-> FALSE]

\* getRates() after its fetch: if (fetched) return fetched; return STATIC_RATES['USD']
AfterFetch(f) == IF f.ret.t = "object" THEN f.ret ELSE Table(STATIC_RATES_USD)

\* a faulty variant: the static table whatever the slot holds
StaticSource_table(c) == Table(STATIC_RATES_USD)

\* this.cache.rates || STATIC_RATES['USD']
StaticSource(c) == IF c.rates.t = "object" THEN c.rates ELSE Table(STATIC_RATES_USD)

\* convertStatic(amount, fromCurrency, toCurrency) over the slot c
convertStatic(c, amount, fromCurrency, toCurrency) ==
    LET fromCode == getCodeFromSymbol(fromCurrency)
        toCode == getCodeFromSymbol(toCurrency)
    IN  IF fromCode = toCode THEN Quotient(amount, 1)
        ELSE CrossConvert(StaticSource(c).v, amount, fromCode, toCode)

\* what a call of the service gave: its result (or that it threw), the
\* response its fetch got, the slot before the call, the rates it converted with
Reply(op, call, result, threw, resp, before, used) ==
    [op |-> op, call |-> call, result |-> result, threw |-> threw, resp |-> resp,
     before |-> before, used |-> used]

Started(s, op) == [s EXCEPT !.calls = @ + 1, !.last = op]

\* the place an async call takes among the calls in flight: the first free one
FirstFree(k) == rateSvc.task[k] = NoTask /\ \A j \in Tasks : j < k => rateSvc.task[j] # NoTask

\* getRates(): the cached rates, or the request is sent and the call waits
GetRates(k) ==
    /\ rateSvc.calls < MaxCalls
    /\ FirstFree(k)
    /\ LET cached == getCachedRates(rateSvc.cache, "USD", now)
       IN  IF cached.t = "object"
           THEN /\ rateSvc' = Started(rateSvc, "getRates")
                /\ out' = Reply("getRates", NoTask, cached, FALSE, NoResponse,
                                rateSvc.cache, NullRates)
           ELSE /\ rateSvc' = [Started(rateSvc, "getRates") EXCEPT
                                  !.task[k] = Task("getRates", 0, "", ""),
                                  !.fetches = @ + 1]
                /\ UNCHANGED out
    /\ UNCHANGED <<disk, now, proc, hist, tz>>

\* convert(amount, fromCurrency, toCurrency)
Convert(k, amount, from, to) ==
    /\ rateSvc.calls < MaxCalls
    /\ FirstFree(k)
    /\ LET fromCode == getCodeFromSymbol(from)
           toCode == getCodeFromSymbol(to)
           call == Task("convert", amount, from, to)
           cached == getCachedRates(rateSvc.cache, "USD", now)
       IN  IF fromCode = toCode
           THEN /\ rateSvc' = Started(rateSvc, "convert")
                /\ out' = Reply("convert", call, Quotient(amount, 1), FALSE, NoResponse,
                                rateSvc.cache, NullRates)
           ELSE IF cached.t = "object"
           THEN /\ rateSvc' = Started(rateSvc, "convert")
                /\ out' = Reply("convert", call,
                                CrossConvert(cached.v, amount, fromCode, toCode), FALSE,
                                NoResponse, rateSvc.cache, cached)
           ELSE /\ rateSvc' = [Started(rateSvc, "convert") EXCEPT
                                  !.task[k] = call, !.fetches = @ + 1]
                /\ UNCHANGED out
    /\ UNCHANGED <<disk, now, proc, hist, tz>>

\* preloadRates(): fetchRates() whatever the slot holds
PreloadRates(k) ==
    /\ rateSvc.calls < MaxCalls
    /\ FirstFree(k)
    /\ rateSvc' = [Started(rateSvc, "preloadRates") EXCEPT
                      !.task[k] = Task("preloadRates", 0, "", ""), !.fetches = @ + 1]
    /\ UNCHANGED <<disk, now, proc, hist, tz, out>>

\* the request of call k settles with resp: fetchRates runs to its end and
\* the call that awaited it returns
FetchSettled(k, resp) ==
    /\ rateSvc.task[k] # NoTask
    /\ LET call == rateSvc.task[k]
           f == fetchRates(rateSvc.cache, resp, now)
           rates == AfterFetch(f)
       IN  /\ rateSvc' = [rateSvc EXCEPT !.cache = f.cache, !.task[k] = NoTask]
           /\ out' =
                IF call.op = "getRates"
                THEN Reply("getRates", call, rates, f.threw, resp, rateSvc.cache, NullRates)
                ELSE IF call.op = "convert"
                THEN \* try { ... } catch { return amount }
                     Reply("convert", call,
                           IF f.threw THEN Quotient(call.amount, 1)
                           ELSE CrossConvert(rates.v, call.amount,
                                             getCodeFromSymbol(call.from),
                                             getCodeFromSymbol(call.to)),
                           FALSE, resp, rateSvc.cache, rates)
                ELSE \* preloadRates: return rates !== null, false once caught
                     Reply("preloadRates", call, ~f.threw /\ f.ret.t # "null", FALSE, resp,
                           rateSvc.cache, NullRates)
    /\ UNCHANGED <<disk, now, proc, hist, tz>>

ConvertStatic(amount, from, to) ==
    /\ rateSvc.calls < MaxCalls
    /\ rateSvc' = Started(rateSvc, "convertStatic")
    /\ out' = Reply("convertStatic", Task("convertStatic", amount, from, to),
                    convertStatic(rateSvc.cache, amount, from, to), FALSE, NoResponse,
                    rateSvc.cache, StaticSource(rateSvc.cache))
    /\ UNCHANGED <<disk, now, proc, hist, tz>>

ClearCache ==
    /\ rateSvc.calls < MaxCalls
    /\ rateSvc' = [Started(rateSvc, "clearCache") EXCEPT !.cache = EmptyCache]
    /\ UNCHANGED <<disk, now, proc, hist, tz, out>>

----------------------------------------------------------------------------
(* SpecRates: calls of the ExchangeRateService while the clock runs and the *)
(* remote end answers in every way                                          *)

\* rates the remote end serves, in hundredths: a table without CNY, a full one
LiveRates == [USD |-> 100, EUR |-> 90, GBP |-> 80, JPY |-> 15000]

LaterRates == [USD |-> 100, EUR |-> 95, GBP |-> 75, JPY |-> 15000, CNY |-> 700]

Responses ==
    {Response("error", UndefRates), Response("status", UndefRates),
     Response("badjson", UndefRates), Response("json", UndefRates),
     Response("json", Table(LiveRates)), Response("json", Table(LaterRates))}

\* the currencies a caller converts between, with convert and with convertStatic
ConvertPairs == {<<"$", "USD">>, <<"$", "CNY">>, <<"€", "£">>}

StaticPairs == ConvertPairs \cup {<<"¥", "$">>, <<"$", "¥">>}

\* the clock is past the epoch (Date.now() > 0)
InitRates ==
    /\ disk = Disk(InitialFile, NoFile, NoFile, {}, {})
    /\ now = 1
    /\ proc = [p \in Procs |-> NewProc(disk)]
    /\ hist = NoHist
    /\ tz = 0
    /\ out = NoOut
    /\ rateSvc = NewService

NextRates ==
    \/ \E k \in Tasks : GetRates(k)
    \/ \E k \in Tasks, c \in ConvertPairs : Convert(k, 100, c[1], c[2])
    \/ \E k \in Tasks : PreloadRates(k)
    \/ \E k \in Tasks, resp \in Responses : FetchSettled(k, resp)
    \/ \E c \in StaticPairs : ConvertStatic(100, c[1], c[2])
    \/ ClearCache
    \/ Tick

SpecRates == InitRates /\ [][NextRates]_vars

----------------------------------------------------------------------------
(* Properties of the ExchangeRateService *)

\* the slot holds USD-based rates whose age at time t is below / at most the window
YoungerThanWindow(c, t) ==
    /\ c.rates.t = "object" /\ c.baseCurrency = "USD" /\ c.timestamp.t = "number"
    /\ t - c.timestamp.v < CACHE_DURATION

WithinWindow(c, t) ==
    /\ c.rates.t = "object" /\ c.baseCurrency = "USD" /\ c.timestamp.t = "number"
    /\ t - c.timestamp.v <= CACHE_DURATION

\* a step in which the operation op is called
CallOf(op) == rateSvc'.calls = rateSvc.calls + 1 /\ rateSvc'.last = op

\* a step in which the request of call k settles and the call returns
Settles(k) == rateSvc.task[k] # NoTask /\ rateSvc'.task[k] = NoTask

\* a response that is no success: no 2xx body with a rates map
Failure(resp) == resp.kind # "json" \/ resp.rates.t # "object"

\* getRates sends a request exactly when the slot does not hold such rates
\* (held), returns the cached rates and leaves the slot alone when it does, and
\* after a successful fetch the slot holds the fetched rates stamped with the
\* time of the fetch and these rates are returned
GetRatesStep(held) ==
    /\ CallOf("getRates") =>
          /\ (rateSvc'.fetches = rateSvc.fetches + 1) <=> ~held
          /\ (rateSvc'.fetches = rateSvc.fetches) \/ (rateSvc'.fetches = rateSvc.fetches + 1)
          /\ held => /\ out'.op = "getRates"
                     /\ out'.result = rateSvc.cache.rates
                     /\ rateSvc'.cache = rateSvc.cache
    /\ \A k \in Tasks :
          Settles(k) /\ rateSvc.task[k].op = "getRates" /\ ~Failure(out'.resp) =>
              /\ rateSvc'.cache = Cache(out'.resp.rates, "USD", Stamp(now))
              /\ out'.result = out'.resp.rates

\* C22 as stated: getRates issues a network fetch if and only if the slot
\* does not hold USD-based rates younger than 24 hours; when it holds them it
\* returns them and leaves the slot unchanged; after a successful fetch the
\* slot holds the fetched rates with the fetch time and getRates returns them
C22_FetchUnlessYounger == [][GetRatesStep(YoungerThanWindow(rateSvc.cache, now))]_vars

\* C22 (amended): the same with rates at most 24 hours old: rates of exactly
\* 24 hours are still served from the slot, without a fetch
C22_FetchUnlessWithinWindow == [][GetRatesStep(WithinWindow(rateSvc.cache, now))]_vars

\* getRates answered from a slot whose rates are exactly 24 hours old
C22_Witness ==
    /\ out.op = "getRates" /\ out.resp = NoResponse
    /\ now - out.before.timestamp.v = CACHE_DURATION
    /\ out.result = out.before.rates
    /\ rateSvc.cache = out.before

C24_ConvertStaticReadsSlotOnly ==
    [][CallOf("convertStatic") =>
          /\ rateSvc'.fetches = rateSvc.fetches
          /\ rateSvc'.cache = rateSvc.cache
          /\ rateSvc'.task = rateSvc.task
          /\ out'.op = "convertStatic"
          /\ out'.used = IF rateSvc.cache.rates.t = "object" THEN rateSvc.cache.rates
                         ELSE Table(STATIC_RATES_USD)
          /\ LET fromCode == getCodeFromSymbol(out'.call.from)
                 toCode == getCodeFromSymbol(out'.call.to)
             IN  out'.result = IF fromCode = toCode THEN Quotient(out'.call.amount, 1)
                               ELSE CrossConvert(out'.used.v, out'.call.amount, fromCode,
                                                 toCode)]_vars

\* a conversion with rates of the slot that are older than the window and
\* give another result than the static table
C24_Witness ==
    /\ out.op = "convertStatic"
    /\ out.before.rates = Table(LiveRates)
    /\ now - out.before.timestamp.v > CACHE_DURATION
    /\ out.used = Table(LiveRates)
    /\ out.call.from = "€" /\ out.call.to = "£"
    /\ out.result = Quotient(100 * 80, 90)
    /\ out.result # CrossConvert(STATIC_RATES_USD, 100, "EUR", "GBP")

\* C25: convert and convertStatic return the amount unchanged when both
\* currencies map to the same code or when either code has no rate in the
\* table they read, and (amount / rate[from]) * rate[to] otherwise (as an
\* exact fraction: the rounding of the floating-point division is left out)
C25_ConversionFormula ==
    out.op \in {"convert", "convertStatic"} =>
        LET fromCode == getCodeFromSymbol(out.call.from)
            toCode == getCodeFromSymbol(out.call.to)
            rates == out.used.v
        IN  IF fromCode = toCode \/ fromCode \notin DOMAIN rates \/ toCode \notin DOMAIN rates
            THEN out.result = [n |-> out.call.amount, d |-> 1]
            ELSE out.result.n * rates[fromCode] = out.call.amount * rates[toCode] * out.result.d

\* convert of 100 euros to pounds with fetched rates 0.90 and 0.80: 800/9
C25_Witness ==
    /\ out.op = "convert"
    /\ out.call.from = "€" /\ out.call.to = "£"
    /\ out.resp = Response("json", Table(LiveRates))
    /\ out.result = [n |-> 800, d |-> 9]

\* C26: for every supported currency (symbol, code) of the configuration,
\* convertStatic gives with the symbol what it gives with the code, as the
\* source and as the target of the conversion
C26_SymbolSameAsCode ==
    out.op = "convertStatic" =>
        \A o \in CURRENCY_OPTIONS :
            /\ o[1] = out.call.from =>
                  out.result = convertStatic(out.before, out.call.amount, o[2], out.call.to)
            /\ o[1] = out.call.to =>
                  out.result = convertStatic(out.before, out.call.amount, out.call.from, o[2])

\* the slot is entirely empty or holds a rates map, base 'USD' and a timestamp
SlotWhole(c) ==
    \/ c = EmptyCache
    \/ c.rates.t = "object" /\ c.baseCurrency = "USD" /\ c.timestamp.t = "number"

\* C30: the slot is always entirely empty or whole; a fetch that fails in any
\* way leaves the slot exactly as it was; preloadRates returns true only when
\* the slot was replaced by fetched rates
C30_SlotWholeFailureKeepsSlot ==
    [][/\ SlotWhole(rateSvc'.cache)
       /\ \A k \in Tasks :
             Settles(k) =>
                 /\ Failure(out'.resp) => rateSvc'.cache = rateSvc.cache
                 /\ out'.op = "preloadRates" /\ out'.result =>
                       /\ ~Failure(out'.resp)
                       /\ rateSvc'.cache = Cache(out'.resp.rates, "USD", Stamp(now))]_vars

----------------------------------------------------------------------------
(* SpecBackup: one process writes and reads while the clock runs and the   *)
(* data file is damaged from outside                                       *)

\* the documents written: with and without settings
SavedDocs == {EmptyDoc, Doc(<< >>, << >>, "$")}

\* a write of the services follows a readData in the same call (saveSettings,
\* addExpense ...), which has reset an unparseable file before: writeData
\* starts over a data file that parses; the clock is read between the calls
NextBackup ==
    \/ \E data \in SavedDocs : disk[dataFilePath].kind = "json" /\ WriteBegin(1, data)
    \/ WriteTmpStart(1)
    \/ WriteTmpEnd(1)
    \/ WriteRotate(1, "ok")
    \/ WriteCopy(1)
    \/ WriteRename(1)
    \/ WriteUnlink(1)
    \/ Tamper(Garbage)
    \/ ReadData(1)
    \/ RecoverCopy(1)
    \/ Start(1)
    \/ proc[1].pc = "idle" /\ Tick

SpecBackup == InitStore /\ [][NextBackup]_vars

\* C29: every timestamped backup holds a parseable document, the one that was
\* live just before the write that made the backup; a read that runs the
\* corruption recovery adds no timestamped backup of unparseable content and
\* removes no timestamped backup
C29_BackupsHoldLiveDocuments ==
    [][/\ \A b \in disk'.backups : b.c.kind = "json"
       /\ \A b \in disk'.backups \ disk.backups : b.c = disk[dataFilePath]
       /\ proc[1].mode = "recover" => disk.backups \subseteq disk'.backups]_vars

----------------------------------------------------------------------------
(* SpecRace: two processes, each with its own StorageService over the same *)
(* data file, add one expense each; no lock is taken anywhere              *)

\* the expense process p adds
RaceRecord(p) == StoredExpense(p, "Food", <<1, p>>)

\* a faulty variant: the record is not pushed
Pushed_lost(doc, r) == doc

\* data.expenses.push(expense)
Pushed(doc, r) == [doc EXCEPT !.expenses = Append(@, r)]

\* storage.addExpense of process p, first line: readData()
AddRead(p) ==
    /\ proc[p].op = "none"
    /\ ReadData(p)

\* storage.addExpense of process p, after its readData returned: push, writeData(data)
AddWrite(p) ==
    /\ proc[p].pc = "idle" /\ proc[p].op = "read" /\ proc[p].res = "ok"
    /\ Set(p, EnterWrite(proc[p], disk, Stringify(Pushed(proc[p].ret, RaceRecord(p))), "user"))
    /\ UNCHANGED <<disk, now, hist, tz, out, rateSvc>>

\* fs.renameSync(tempPath, dataFilePath) when the temp file is gone (the
\* other process renamed or removed it): ENOENT is thrown
WriteRenameNoTemp(p) ==
    /\ proc[p].pc = "wRename"
    /\ ~Exists(disk[tempPath])
    /\ Set(p, [proc[p] EXCEPT !.pc = "wCatch", !.err = "wRename", !.clean = FALSE])
    /\ UNCHANGED <<disk, now, hist, tz, out, rateSvc>>

\* the data file before the two calls
RaceStart == Stringify(EmptyDoc)

InitRace ==
    /\ disk = Disk(RaceStart, NoFile, NoFile, {}, {})
    /\ now = 0
    /\ proc = [p \in Procs |-> NewProc(disk)]
    /\ hist = NoHist
    /\ tz = 0
    /\ out = NoOut
    /\ rateSvc = NewService

NextRace ==
    \E p \in Procs :
        \/ AddRead(p)
        \/ AddWrite(p)
        \/ WriteTmpStart(p)
        \/ WriteTmpEnd(p)
        \/ WriteRotate(p, "ok")
        \/ WriteCopy(p)
        \/ WriteRename(p)
        \/ WriteRenameNoTemp(p)
        \/ WriteUnlink(p)
        \/ WriteCatch(p)

SpecRace == InitRace /\ [][NextRace]_vars

\* both addExpense calls have returned without error
BothAdded ==
    \A p \in Procs :
        proc[p].pc = "idle" /\ proc[p].mode = "user" /\ proc[p].op = "write" /\ proc[p].res = "ok"

\* C27: two processes that each run addExpense without a lock can both report
\* success while the stored document holds only one of the two records: what
\* is stored once both have returned is the document one of them wrote (the
\* last to rename), which holds that process's record and the other's only
\* if it was read before
C27_LastWriterWins ==
    BothAdded =>
        /\ disk[dataFilePath] \in {proc[p].data : p \in Procs}
        /\ \E p \in Procs : RaceRecord(p) \in RecordsOf(Stored)
        /\ \A p \in Procs : RaceRecord(p) \in RecordsOf(ReadOutcome(proc[p].data).doc)

\* the interleaving of the lost update: both calls returned without error and
\* the document holds one record only, none of the two temp files having met
C27_Witness ==
    /\ BothAdded
    /\ \A p \in Procs : proc[p].clean
    /\ disk[dataFilePath].kind = "json"
    /\ Len(Stored.expenses) = 1
    /\ Stored.expenses[1] \in {RaceRecord(p) : p \in Procs}

\* C28: while two processes run writeData at once on the same data file, the
\* data file holds at every moment a complete document, the one before the
\* calls or the text of one of the two calls, and each rename that succeeds
\* installs the text of the call that makes it
C28_ConcurrentWritesKeepLiveWhole ==
    [][/\ disk'[dataFilePath].kind = "json"
       /\ disk'[dataFilePath] \in
             {RaceStart} \cup {proc'[p].data : p \in {q \in Procs : proc'[q].mode = "user"}}
       /\ \A p \in Procs :
             proc[p].pc = "wRename" /\ proc'[p].pc = "wUnlink" =>
                 disk'[dataFilePath] = proc[p].data]_vars

====
